---- MODULE Spec2Model ----
(***************************************************************************)
(* pb-audit: audit logging for PocketBase.  The model covers Setup and its *)
(* bootstrap hook (audit.go, options.go, schema import), the seven capture *)
(* hooks (hooks.go), the logger (logEvent / shouldLogEvent) and extractIP. *)
(* The platform (storage, hook dispatch) appears only through the calls    *)
(* the package makes on it; its outcomes are nondeterministic choices.     *)
(***************************************************************************)
EXTENDS Naturals, Sequences, FiniteSets, TLC

VARIABLES
    phase,        \* "new" | "bound" | "ensure" | "import" | "warned" | "register" | "running" | "failed"
    options,      \* the Options value: as supplied before Setup, as held by the logger after
    supplied,     \* the Options value the application passed to Setup
    registered,   \* hook classes bound on the app: subset of {"standard","request","auth"}
    bootErr,      \* what the bootstrap hook returned (Nil while it has not)
    collections,  \* the platform's collections, a sequence of [name, schema]
    store,        \* stored records of the observed base collection, by record id
    auditLog,     \* records saved into the audit collection by the logger, in save order
    proc,         \* per worker: the platform operation in flight and its hook invocations
    nOps          \* operations started so far

vars == <<phase, options, supplied, registered, bootErr, collections, store,
          auditLog, proc, nOps>>

(***************************************************************************)
(* Bounds                                                                  *)
(***************************************************************************)
MaxOps == 2

\* How deep the model follows hooks that fire through the logger's own save
MaxDepth == 3

Procs == {"p1"}

\* Go's nil / an unset record field
Nil == "nil"

(***************************************************************************)
(* constants.go                                                            *)
(***************************************************************************)
EventTypeCreate == "create"

EventTypeUpdate == "update"

EventTypeDelete == "delete"

EventTypeCreateReq == "create_request"

EventTypeUpdateReq == "update_request"

EventTypeDeleteReq == "delete_request"

EventTypeAuth == "auth"

DefaultSchemaPath == "pb_schema.json"

AuditLogFields ==
    [EventType      |-> "event_type",
     CollectionName |-> "collection_name",
     RecordID       |-> "record_id",
     UserID         |-> "user_id",
     AuthMethod     |-> "auth_method",
     RequestMethod  |-> "request_method",
     RequestIP      |-> "request_ip",
     RequestURL     |-> "request_url",
     Timestamp      |-> "timestamp",
     BeforeChanges  |-> "before_changes",
     AfterChanges   |-> "after_changes",
     Created        |-> "created",
     Updated        |-> "updated"]

AllEventTypes ==
    <<EventTypeCreate, EventTypeUpdate, EventTypeDelete, EventTypeCreateReq,
      EventTypeUpdateReq, EventTypeDeleteReq, EventTypeAuth>>

\* The fields logEvent and the hooks set on an audit record (timestamps are
\* stamped by the clock and the platform and carry nothing the hooks decide).
EntryFields ==
    {AuditLogFields.EventType, AuditLogFields.CollectionName, AuditLogFields.RecordID,
     AuditLogFields.UserID, AuditLogFields.AuthMethod, AuditLogFields.RequestMethod,
     AuditLogFields.RequestIP, AuditLogFields.RequestURL,
     AuditLogFields.BeforeChanges, AuditLogFields.AfterChanges}

(***************************************************************************)
(* options.go: Options, DefaultOptions, applyDefaultOptions                *)
(***************************************************************************)
DefaultOptions ==
    [CollectionName        |-> "audit_logs",
     EnableStandardEvents  |-> TRUE,
     EnableRequestEvents   |-> TRUE,
     EnableAuthEvents      |-> TRUE,
     EventFilter           |-> Nil,
     SchemaPath            |-> "",
     CreateAuditCollection |-> TRUE,
     FailOnSchemaError     |-> FALSE,
     LogToConsole          |-> TRUE]

\* applyDefaultOptions that falls back to all the defaults when the name is empty
applyDefaultOptions_ResetAll(o) ==
    IF o.CollectionName = "" THEN DefaultOptions ELSE o

applyDefaultOptions(o) ==
    IF o.CollectionName = ""
    THEN [o EXCEPT !.CollectionName = DefaultOptions.CollectionName]
    ELSE o

\* Options.EventFilter is a function the application supplies; these are the
\* predicates the model draws it from (Nil: no filter).
EventFilters == {Nil, "allowAll", "denyAll", "requestsOnly"}

EventFilter(f, collectionName, eventType) ==
    CASE f = "allowAll"     -> TRUE
      [] f = "denyAll"      -> FALSE
      [] f = "requestsOnly" ->
            eventType \in {EventTypeCreateReq, EventTypeUpdateReq, EventTypeDeleteReq}
      [] OTHER              -> TRUE

\* The Options values an application may pass to Setup: every value of the
\* options the hooks and the logger read at run time (with the startup options
\* at their defaults), every value of the startup options (with the others
\* at their defaults), the console echo switched off, and an application that
\* keeps the audit collection to itself and filters every event out.
RuntimeOptionInputs ==
    [CollectionName        : {"", "my_audit"},
     EnableStandardEvents  : BOOLEAN,
     EnableRequestEvents   : BOOLEAN,
     EnableAuthEvents      : BOOLEAN,
     EventFilter           : EventFilters,
     SchemaPath            : {DefaultOptions.SchemaPath},
     CreateAuditCollection : {DefaultOptions.CreateAuditCollection},
     FailOnSchemaError     : {DefaultOptions.FailOnSchemaError},
     LogToConsole          : {DefaultOptions.LogToConsole}]

StartupOptionInputs ==
    [CollectionName        : {""},
     EnableStandardEvents  : {DefaultOptions.EnableStandardEvents},
     EnableRequestEvents   : {DefaultOptions.EnableRequestEvents},
     EnableAuthEvents      : {DefaultOptions.EnableAuthEvents},
     EventFilter           : {DefaultOptions.EventFilter},
     SchemaPath            : {"", DefaultSchemaPath},
     CreateAuditCollection : BOOLEAN,
     FailOnSchemaError     : BOOLEAN,
     LogToConsole          : {DefaultOptions.LogToConsole}]

OptionInputs ==
    {o \in RuntimeOptionInputs :
        \/ o.EventFilter = DefaultOptions.EventFilter
        \/ o.EnableStandardEvents /\ o.EnableRequestEvents /\ o.EnableAuthEvents}
    \cup StartupOptionInputs
    \cup {[DefaultOptions EXCEPT !.LogToConsole = FALSE],
          [DefaultOptions EXCEPT !.CreateAuditCollection = FALSE, !.EventFilter = "denyAll"]}

(***************************************************************************)
(* The platform's collections                                              *)
(***************************************************************************)
ErrNotFound == "ErrNotFound"

ErrSave == "ErrSave"

ErrReadFile == "ErrReadFile"

ErrImport == "ErrImport"

ErrBootstrap == "ErrBootstrap"

ErrDownstream == "ErrDownstream"

\* app.FindCollectionByNameOrId(name) returns no error
FindCollectionByNameOrId(colls, name) ==
    \E i \in 1..Len(colls) : colls[i].name = name

\* The collection ensureAuditCollection builds (options.go 87-179)
AuditCollectionSchema ==
    [rules   |-> "@request.auth.type = 'admin'",
     fields  |-> {<<AuditLogFields.EventType, "select", TRUE>>,
                  <<AuditLogFields.CollectionName, "text", TRUE>>,
                  <<AuditLogFields.RecordID, "text", TRUE>>,
                  <<AuditLogFields.UserID, "text", FALSE>>,
                  <<AuditLogFields.AuthMethod, "text", FALSE>>,
                  <<AuditLogFields.RequestMethod, "text", FALSE>>,
                  <<AuditLogFields.RequestIP, "text", FALSE>>,
                  <<AuditLogFields.RequestURL, "text", FALSE>>,
                  <<AuditLogFields.Timestamp, "date", TRUE>>,
                  <<AuditLogFields.BeforeChanges, "text", FALSE>>,
                  <<AuditLogFields.AfterChanges, "text", FALSE>>,
                  <<AuditLogFields.Created, "autodate", FALSE>>,
                  <<AuditLogFields.Updated, "autodate", FALSE>>},
     indexes |-> {AuditLogFields.CollectionName, AuditLogFields.RecordID,
                  AuditLogFields.Timestamp, AuditLogFields.UserID,
                  AuditLogFields.EventType}]

\* A collection that was not built by ensureAuditCollection (made by the
\* application, an earlier import or an administrator).
ForeignSchema == [rules |-> "custom", fields |-> {}, indexes |-> {}]

\* ensureAuditCollection without its existence check
ensureAuditCollection_NoCheck(colls, collectionName, saveOk) ==
    IF saveOk
    THEN [err   |-> Nil,
          colls |-> Append(colls, [name |-> collectionName,
                                   schema |-> AuditCollectionSchema])]
    ELSE [err |-> ErrSave, colls |-> colls]

\* ensureAuditCollection(app, collectionName); saveOk is the outcome of app.Save
ensureAuditCollection(colls, collectionName, saveOk) ==
    IF FindCollectionByNameOrId(colls, collectionName)
    THEN [err |-> Nil, colls |-> colls]
    ELSE IF saveOk
         THEN [err   |-> Nil,
               colls |-> Append(colls, [name |-> collectionName,
                                        schema |-> AuditCollectionSchema])]
         ELSE [err |-> ErrSave, colls |-> colls]

\* What the schema file holds, as far as the audit collection goes.
ImportOutcomes == {"readFails", "importFails", "withoutAudit", "withAudit"}

\* app.ImportCollectionsByMarshaledJSON(schemaData, false): collections of the
\* file that do not exist yet are added, none is deleted.
ImportCollections(colls, collectionName, outcome) ==
    IF outcome = "withAudit" /\ ~FindCollectionByNameOrId(colls, collectionName)
    THEN Append(colls, [name |-> collectionName, schema |-> ForeignSchema])
    ELSE colls

\* importCollectionsFromFile that does not look for the audit collection after
\* the import
importCollectionsFromFile_NoEnsure(colls, collectionName, outcome, saveOk) ==
    IF outcome = "readFails" THEN [err |-> ErrReadFile, colls |-> colls]
    ELSE IF outcome = "importFails" THEN [err |-> ErrImport, colls |-> colls]
    ELSE [err |-> Nil, colls |-> ImportCollections(colls, collectionName, outcome)]

\* importCollectionsFromFile(app, schemaPath, collectionName)
importCollectionsFromFile(colls, collectionName, outcome, saveOk) ==
    IF outcome = "readFails" THEN [err |-> ErrReadFile, colls |-> colls]
    ELSE IF outcome = "importFails" THEN [err |-> ErrImport, colls |-> colls]
    ELSE LET imported == ImportCollections(colls, collectionName, outcome)
         IN  IF ~FindCollectionByNameOrId(imported, collectionName)
             THEN LET r == ensureAuditCollection(imported, collectionName, saveOk)
                  IN  IF r.err # Nil
                      THEN [err |-> r.err, colls |-> r.colls]
                      ELSE [err |-> Nil, colls |-> r.colls]
             ELSE [err |-> Nil, colls |-> imported]

(***************************************************************************)
(* Records and their snapshots                                             *)
(***************************************************************************)
\* A nil *core.Record
NilRecord == [isNil |-> TRUE]

\* A nil map[string]interface{}
NilMap == [isNilMap |-> TRUE]

\* An audit record's text field that was never set
NoSnapshot == <<>>

Record(id, collection, user, created_by, data) ==
    [id |-> id, collection |-> collection, user |-> user,
     created_by |-> created_by, data |-> data]

\* A record of the audit collection, as an event carries it (one the logger
\* saved, or one some other writer handles)
AuditCollectionRecord(name) == Record("a1", name, Nil, Nil, "a")

\* record.Get(name): nil when the record has no such field
Get(record, name) ==
    CASE name = "user"       -> record.user
      [] name = "created_by" -> record.created_by
      [] OTHER               -> Nil

\* json.Marshal(record) followed by json.Unmarshal into a map: the record's
\* exported fields by name; a field the record does not have is not exported.
RecordMap(record) ==
    LET all == [id             |-> record.id,
                collectionName |-> record.collection,
                user           |-> record.user,
                created_by     |-> record.created_by,
                data           |-> record.data]
    IN  [k \in {x \in DOMAIN all : all[x] # Nil} |-> all[k]]

\* encoding/json writes a map's keys in sorted order
SortedKeys == <<"collectionName", "created_by", "data", "id", "user">>

\* string(json.Marshal(map)): the key/value pairs in key order
MarshalMap(m) ==
    LET ks == SelectSeq(SortedKeys, LAMBDA k : k \in DOMAIN m)
    IN  [i \in 1..Len(ks) |-> <<ks[i], m[ks[i]]>>]

(***************************************************************************)
(* The logger (shouldLogEvent, logEvent)                                   *)
(***************************************************************************)
\* shouldLogEvent without its first branch: the audit collection is judged by
\* the filter like any other
shouldLogEvent_NoSelfCheck(l, collectionName, eventType) ==
    IF l.options.EventFilter # Nil
    THEN EventFilter(l.options.EventFilter, collectionName, eventType)
    ELSE TRUE

\* logger.shouldLogEvent(collectionName, eventType)
shouldLogEvent(l, collectionName, eventType) ==
    IF collectionName = l.options.CollectionName
    THEN FALSE
    ELSE IF l.options.EventFilter # Nil
         THEN EventFilter(l.options.EventFilter, collectionName, eventType)
         ELSE TRUE

Unset(f) ==
    IF f \in {AuditLogFields.BeforeChanges, AuditLogFields.AfterChanges}
    THEN NoSnapshot
    ELSE Nil

\* core.NewRecord(auditCollection) with event_type, collection_name and
\* record_id set (logEvent, lines 58-72)
NewAuditRecord(afterRecord, beforeRecord, collectionName, eventType) ==
    LET recordId == IF afterRecord # NilRecord THEN afterRecord.id
                    ELSE IF beforeRecord # NilRecord THEN beforeRecord.id
                    ELSE ""
    IN  [f \in EntryFields |->
            CASE f = AuditLogFields.EventType      -> eventType
              [] f = AuditLogFields.CollectionName -> collectionName
              [] f = AuditLogFields.RecordID       -> recordId
              [] OTHER                             -> Unset(f)]

\* for key, value := range requestInfo { auditRecord.Set(key, value) }
ApplyRequestInfo(auditRecord, requestInfo) ==
    IF requestInfo = NilMap
    THEN auditRecord
    ELSE [f \in EntryFields |->
            IF f \in DOMAIN requestInfo THEN requestInfo[f] ELSE auditRecord[f]]

\* A user-id resolution that reads created_by before user
ResolveUserID_CreatedByFirst(auditRecord, afterRecord, beforeRecord) ==
    IF auditRecord[AuditLogFields.UserID] # Nil
    THEN auditRecord
    ELSE LET record == IF afterRecord # NilRecord THEN afterRecord ELSE beforeRecord
         IN  IF record = NilRecord THEN auditRecord
             ELSE IF Get(record, "created_by") # Nil
                  THEN [auditRecord EXCEPT
                           ![AuditLogFields.UserID] = Get(record, "created_by")]
                  ELSE IF Get(record, "user") # Nil
                       THEN [auditRecord EXCEPT
                                ![AuditLogFields.UserID] = Get(record, "user")]
                       ELSE auditRecord

\* logEvent, lines 84-99: the user id taken from the records
ResolveUserID(auditRecord, afterRecord, beforeRecord) ==
    IF auditRecord[AuditLogFields.UserID] # Nil
    THEN auditRecord
    ELSE IF afterRecord # NilRecord
         THEN IF Get(afterRecord, "user") # Nil
              THEN [auditRecord EXCEPT ![AuditLogFields.UserID] = Get(afterRecord, "user")]
              ELSE IF Get(afterRecord, "created_by") # Nil
                   THEN [auditRecord EXCEPT
                            ![AuditLogFields.UserID] = Get(afterRecord, "created_by")]
                   ELSE auditRecord
         ELSE IF beforeRecord # NilRecord
              THEN IF Get(beforeRecord, "user") # Nil
                   THEN [auditRecord EXCEPT
                            ![AuditLogFields.UserID] = Get(beforeRecord, "user")]
                   ELSE IF Get(beforeRecord, "created_by") # Nil
                        THEN [auditRecord EXCEPT
                                 ![AuditLogFields.UserID] = Get(beforeRecord, "created_by")]
                        ELSE auditRecord
              ELSE auditRecord

\* logEvent that stores no snapshot at all
StoreSnapshot_Never(auditRecord, field, record, marshalOk) ==
    auditRecord

\* logEvent, lines 101-137: a snapshot is stored when the record is there and
\* json.Marshal of it succeeds
StoreSnapshot(auditRecord, field, record, marshalOk) ==
    IF record # NilRecord /\ marshalOk
    THEN [auditRecord EXCEPT ![field] = MarshalMap(RecordMap(record))]
    ELSE auditRecord

\* The outcomes of the calls logEvent makes on the platform and on encoding/json
LogEnvs == [saveOk : BOOLEAN, marshalBeforeOk : BOOLEAN, marshalAfterOk : BOOLEAN]

\* logEvent without the policy gate of its first lines
logEvent_NoGate(l, colls, afterRecord, beforeRecord, collectionName, eventType, requestInfo, env) ==
    IF ~FindCollectionByNameOrId(colls, l.options.CollectionName)
    THEN [err |-> ErrNotFound, saved |-> <<>>]
    ELSE LET r0 == NewAuditRecord(afterRecord, beforeRecord, collectionName, eventType)
             r1 == ApplyRequestInfo(r0, requestInfo)
             r2 == ResolveUserID(r1, afterRecord, beforeRecord)
             r3 == StoreSnapshot(r2, AuditLogFields.BeforeChanges, beforeRecord,
                                 env.marshalBeforeOk)
             r4 == StoreSnapshot(r3, AuditLogFields.AfterChanges, afterRecord,
                                 env.marshalAfterOk)
         IN  IF env.saveOk
             THEN [err |-> Nil, saved |-> <<r4>>]
             ELSE [err |-> ErrSave, saved |-> <<>>]

\* logEvent that saves a second time when the first save failed
logEvent_Retry(l, colls, afterRecord, beforeRecord, collectionName, eventType, requestInfo, env) ==
    IF ~shouldLogEvent(l, collectionName, eventType)
    THEN [err |-> Nil, saved |-> <<>>]
    ELSE IF ~FindCollectionByNameOrId(colls, l.options.CollectionName)
    THEN [err |-> ErrNotFound, saved |-> <<>>]
    ELSE LET r0 == NewAuditRecord(afterRecord, beforeRecord, collectionName, eventType)
             r1 == ApplyRequestInfo(r0, requestInfo)
             r2 == ResolveUserID(r1, afterRecord, beforeRecord)
             r3 == StoreSnapshot(r2, AuditLogFields.BeforeChanges, beforeRecord,
                                 env.marshalBeforeOk)
             r4 == StoreSnapshot(r3, AuditLogFields.AfterChanges, afterRecord,
                                 env.marshalAfterOk)
         IN  [err |-> Nil, saved |-> <<r4>>]

\* logEvent that saves without looking the audit collection up
logEvent_NoLookup(l, colls, afterRecord, beforeRecord, collectionName, eventType, requestInfo, env) ==
    IF ~shouldLogEvent(l, collectionName, eventType)
    THEN [err |-> Nil, saved |-> <<>>]
    ELSE LET r0 == NewAuditRecord(afterRecord, beforeRecord, collectionName, eventType)
             r1 == ApplyRequestInfo(r0, requestInfo)
             r2 == ResolveUserID(r1, afterRecord, beforeRecord)
             r3 == StoreSnapshot(r2, AuditLogFields.BeforeChanges, beforeRecord,
                                 env.marshalBeforeOk)
             r4 == StoreSnapshot(r3, AuditLogFields.AfterChanges, afterRecord,
                                 env.marshalAfterOk)
         IN  IF env.saveOk
             THEN [err |-> Nil, saved |-> <<r4>>]
             ELSE [err |-> ErrSave, saved |-> <<>>]

\* logEvent that looks the audit collection up before it asks the gate
logEvent_LookupFirst(l, colls, afterRecord, beforeRecord, collectionName, eventType, requestInfo, env) ==
    IF ~FindCollectionByNameOrId(colls, l.options.CollectionName)
    THEN [err |-> ErrNotFound, saved |-> <<>>]
    ELSE logEvent_NoLookup(l, colls, afterRecord, beforeRecord, collectionName, eventType,
                           requestInfo, env)

\* logEvent that gives up on the entry when a record cannot be serialized
logEvent_MarshalFatal(l, colls, afterRecord, beforeRecord, collectionName, eventType, requestInfo, env) ==
    IF \/ beforeRecord # NilRecord /\ ~env.marshalBeforeOk
       \/ afterRecord # NilRecord /\ ~env.marshalAfterOk
    THEN [err |-> ErrSave, saved |-> <<>>]
    ELSE IF ~shouldLogEvent(l, collectionName, eventType)
    THEN [err |-> Nil, saved |-> <<>>]
    ELSE IF ~FindCollectionByNameOrId(colls, l.options.CollectionName)
    THEN [err |-> ErrNotFound, saved |-> <<>>]
    ELSE LET r0 == NewAuditRecord(afterRecord, beforeRecord, collectionName, eventType)
             r1 == ApplyRequestInfo(r0, requestInfo)
             r2 == ResolveUserID(r1, afterRecord, beforeRecord)
             r3 == StoreSnapshot(r2, AuditLogFields.BeforeChanges, beforeRecord, TRUE)
             r4 == StoreSnapshot(r3, AuditLogFields.AfterChanges, afterRecord, TRUE)
         IN  IF env.saveOk
             THEN [err |-> Nil, saved |-> <<r4>>]
             ELSE [err |-> ErrSave, saved |-> <<>>]

\* logger.logEvent(afterRecord, beforeRecord, collectionName, eventType, requestInfo):
\* the error it returns and the audit records it saved
logEvent(l, colls, afterRecord, beforeRecord, collectionName, eventType, requestInfo, env) ==
    IF ~shouldLogEvent(l, collectionName, eventType)
    THEN [err |-> Nil, saved |-> <<>>]
    ELSE IF ~FindCollectionByNameOrId(colls, l.options.CollectionName)
    THEN [err |-> ErrNotFound, saved |-> <<>>]
    ELSE LET r0 == NewAuditRecord(afterRecord, beforeRecord, collectionName, eventType)
             r1 == ApplyRequestInfo(r0, requestInfo)
             r2 == ResolveUserID(r1, afterRecord, beforeRecord)
             r3 == StoreSnapshot(r2, AuditLogFields.BeforeChanges, beforeRecord,
                                 env.marshalBeforeOk)
             r4 == StoreSnapshot(r3, AuditLogFields.AfterChanges, afterRecord,
                                 env.marshalAfterOk)
         IN  IF env.saveOk
             THEN [err |-> Nil, saved |-> <<r4>>]
             ELSE [err |-> ErrSave, saved |-> <<>>]

(***************************************************************************)
(* The capture hooks (hooks.go).  A hook's outcome: the records it handed   *)
(* to logEvent and what logEvent returned and saved, whether it reached     *)
(* `return e.Next()`, and whether it panicked.                              *)
(***************************************************************************)
NoEnv == [none |-> TRUE]

\* The hook returned on its first branch, `return e.Next()`, without logging
Skipped ==
    [logCalled |-> FALSE, after |-> NilRecord, before |-> NilRecord,
     collectionName |-> Nil, eventType |-> Nil, requestInfo |-> NilMap, env |-> NoEnv,
     logErr |-> Nil, saved |-> <<>>, nextCalled |-> TRUE, panicked |-> FALSE]

\* The hook dereferenced a nil record
Panicked ==
    [logCalled |-> FALSE, after |-> NilRecord, before |-> NilRecord,
     collectionName |-> Nil, eventType |-> Nil, requestInfo |-> NilMap, env |-> NoEnv,
     logErr |-> Nil, saved |-> <<>>, nextCalled |-> FALSE, panicked |-> TRUE]

\* The hook called l.logEvent(afterRecord, beforeRecord, collectionName,
\* eventType, requestInfo) and then either returned its value (nextCalled
\* FALSE) or logged it and returned e.Next()
Logged(l, colls, afterRecord, beforeRecord, collectionName, eventType, requestInfo, env, nextCalled) ==
    LET log == logEvent(l, colls, afterRecord, beforeRecord, collectionName, eventType,
                        requestInfo, env)
    IN  [logCalled |-> TRUE, after |-> afterRecord, before |-> beforeRecord,
         collectionName |-> collectionName, eventType |-> eventType,
         requestInfo |-> requestInfo, env |-> env,
         logErr |-> log.err, saved |-> log.saved, nextCalled |-> nextCalled,
         panicked |-> FALSE]

\* A post-create hook that logs every creation, the audit collection's included
OnRecordAfterCreateSuccess_Unguarded(l, colls, e, env) ==
    LET log == logEvent_NoGate(l, colls, e.Record, NilRecord, e.Record.collection,
                               EventTypeCreate, NilMap, env)
    IN  [logCalled |-> TRUE, after |-> e.Record, before |-> NilRecord,
         collectionName |-> e.Record.collection, eventType |-> EventTypeCreate,
         requestInfo |-> NilMap, env |-> env, logErr |-> log.err, saved |-> log.saved,
         nextCalled |-> FALSE, panicked |-> FALSE]

\* l.app.OnRecordAfterCreateSuccess().BindFunc(...)
OnRecordAfterCreateSuccess(l, colls, e, env) ==
    LET collectionName == e.Record.collection
    IN  IF collectionName = l.options.CollectionName
        THEN Skipped
        ELSE Logged(l, colls, e.Record, NilRecord, collectionName, EventTypeCreate, NilMap,
                    env, FALSE)

\* l.app.OnRecordAfterUpdateSuccess().BindFunc(...)
OnRecordAfterUpdateSuccess(l, colls, e, env) ==
    LET collectionName == e.Record.collection
    IN  IF collectionName = l.options.CollectionName
        THEN Skipped
        ELSE Logged(l, colls, e.Record, NilRecord, collectionName, EventTypeUpdate, NilMap,
                    env, FALSE)

\* l.app.OnRecordAfterDeleteSuccess().BindFunc(...)
OnRecordAfterDeleteSuccess(l, colls, e, env) ==
    LET collectionName == e.Record.collection
    IN  IF collectionName = l.options.CollectionName
        THEN Skipped
        ELSE Logged(l, colls, NilRecord, e.Record, collectionName, EventTypeDelete, NilMap,
                    env, FALSE)

\* l.app.Save(auditRecord) that overwrites the newest entry instead of adding one
Save_Overwrite(log, saved) ==
    IF saved = <<>> THEN log
    ELSE IF log = <<>> THEN saved
    ELSE [log EXCEPT ![Len(log)] = saved[1]]

\* l.app.Save(auditRecord) that keeps one entry per observed collection,
\* the newest taking the place of the one before
Save_PerCollection(log, saved) ==
    IF saved = <<>> THEN log
    ELSE SelectSeq(log, LAMBDA en : en[AuditLogFields.CollectionName]
                                       # saved[1][AuditLogFields.CollectionName])
         \o saved

\* l.app.Save(auditRecord) on the new record logEvent built: the audit
\* collection gains the records handed over, in order, and keeps the others
Save(log, saved) ==
    log \o saved

\* Saving an audit record is itself a record creation, and the platform runs
\* the bound OnRecordAfterCreateSuccess hooks on it inside app.Save: the
\* records one save leaves behind are the record itself and whatever that
\* hook saves in turn (followed to the given depth, with a storage that works)
RECURSIVE Persisted(_, _)
Persisted(saved, depth) ==
    IF saved = <<>> \/ depth = 0 \/ "standard" \notin registered
    THEN saved
    ELSE LET e == [Record |-> AuditCollectionRecord(options.CollectionName)]
             nested == OnRecordAfterCreateSuccess([options |-> options], collections, e,
                           [saveOk |-> TRUE, marshalBeforeOk |-> TRUE,
                            marshalAfterOk |-> TRUE])
         IN  saved \o Persisted(nested.saved, depth - 1)

\* strings.Split(s, ",")[0]: the tokens before the first comma
FirstEntry(tokens) ==
    LET commas == {i \in 1..Len(tokens) : tokens[i] = ","}
    IN  IF commas = {} THEN tokens
        ELSE SubSeq(tokens, 1, (CHOOSE i \in commas : \A j \in commas : i <= j) - 1)

\* strings.TrimSpace(s): without its leading and trailing blanks
RECURSIVE TrimSpace(_)
TrimSpace(tokens) ==
    IF tokens = <<>> THEN tokens
    ELSE IF Head(tokens) = " " THEN TrimSpace(Tail(tokens))
    ELSE IF tokens[Len(tokens)] = " " THEN TrimSpace(SubSeq(tokens, 1, Len(tokens) - 1))
    ELSE tokens

\* The header names extractIP looks for, and the spelling a client may send
\* them in
HeaderNames == {"cf-connecting-ip", "x-forwarded-for", "x-real-ip", "fly-client-ip"}

Canonical(h) ==
    CASE h = "cf-connecting-ip" -> "CF-Connecting-IP"
      [] h = "x-forwarded-for"  -> "X-Forwarded-For"
      [] h = "x-real-ip"        -> "X-Real-IP"
      [] h = "fly-client-ip"    -> "Fly-Client-IP"
      [] OTHER                  -> h

\* strings.ToLower(k), on the header names of the model
ToLower(k) ==
    IF \E h \in HeaderNames : Canonical(h) = k
    THEN CHOOSE h \in HeaderNames : Canonical(h) = k
    ELSE k

\* headerMap[strings.ToLower(k)] = v for k, v := range reqInfo.Headers (the
\* requests of the model never carry one header under two spellings, where the
\* order of the range would decide)
LowerKeys(headers) ==
    [k \in {ToLower(h) : h \in DOMAIN headers} |->
        headers[CHOOSE h \in DOMAIN headers : ToLower(h) = k]]

\* extractIP that reads x-forwarded-for before cf-connecting-ip
extractIP_ForwardedFirst(e) ==
    IF e.hasRealIP THEN <<e.RealIP>>
    ELSE IF ~e.hasRequestInfo \/ e.RequestInfo.err THEN <<"unknown">>
    ELSE LET headerMap == LowerKeys(e.RequestInfo.Headers)
             has(h) == h \in DOMAIN headerMap /\ headerMap[h] # <<>>
         IN  IF has("x-forwarded-for")
             THEN TrimSpace(FirstEntry(headerMap["x-forwarded-for"]))
             ELSE IF has("cf-connecting-ip") THEN headerMap["cf-connecting-ip"]
             ELSE IF has("x-real-ip") THEN headerMap["x-real-ip"]
             ELSE IF has("fly-client-ip") THEN headerMap["fly-client-ip"]
             ELSE <<"unknown">>

\* extractIP(e): the address as a sequence of tokens.  An event that exposes
\* RealIP() answers with it; the headers are read only for one that does not.
extractIP(e) ==
    IF e.hasRealIP THEN <<e.RealIP>>
    ELSE IF ~e.hasRequestInfo \/ e.RequestInfo.err THEN <<"unknown">>
    ELSE LET headerMap == LowerKeys(e.RequestInfo.Headers)
             has(h) == h \in DOMAIN headerMap /\ headerMap[h] # <<>>
         IN  IF has("cf-connecting-ip") THEN headerMap["cf-connecting-ip"]
             ELSE IF has("x-forwarded-for")
                  THEN TrimSpace(FirstEntry(headerMap["x-forwarded-for"]))
             ELSE IF has("x-real-ip") THEN headerMap["x-real-ip"]
             ELSE IF has("fly-client-ip") THEN headerMap["fly-client-ip"]
             ELSE <<"unknown">>

\* A request-information map filled in without regard to RequestInfo's error
RequestInfoMap_NoErrCheck(e) ==
    [k \in {AuditLogFields.RequestIP, AuditLogFields.RequestMethod,
            AuditLogFields.RequestURL} |->
        CASE k = AuditLogFields.RequestIP     -> e.RealIP
          [] k = AuditLogFields.RequestMethod -> e.RequestInfo.Method
          [] OTHER                            -> e.RequestInfo.Context]

\* The requestInfo map a request hook builds (hooks.go 66-83, 108-125, 144-161)
RequestInfoMap(e) ==
    LET info == e.RequestInfo
        dom  == {AuditLogFields.RequestIP}
                \cup (IF info.err THEN {}
                      ELSE {AuditLogFields.RequestMethod, AuditLogFields.RequestURL})
                \cup (IF ~info.err /\ info.Auth # Nil THEN {AuditLogFields.UserID} ELSE {})
    IN  [k \in dom |->
            CASE k = AuditLogFields.RequestIP     -> e.RealIP
              [] k = AuditLogFields.RequestMethod -> info.Method
              [] k = AuditLogFields.RequestURL    -> info.Context
              [] OTHER                            -> info.Auth]

\* l.app.OnRecordCreateRequest().BindFunc(...)
OnRecordCreateRequest(l, colls, e, env) ==
    IF e.Collection = l.options.CollectionName
    THEN Skipped
    ELSE Logged(l, colls, e.Record, NilRecord, e.Collection, EventTypeCreateReq, RequestInfoMap(e),
                    env, TRUE)

\* An update-request hook that takes the submitted record for the stored one
OnRecordUpdateRequest_AfterAsBefore(l, colls, e, originalRecord, env) ==
    IF e.Collection = l.options.CollectionName
    THEN Skipped
    ELSE Logged(l, colls, e.Record, e.Record, e.Collection, EventTypeUpdateReq,
                RequestInfoMap(e), env, TRUE)

\* An update-request hook that gives up, without logging and without e.Next(),
\* when the stored record cannot be read
OnRecordUpdateRequest_LookupFatal(l, colls, e, originalRecord, env) ==
    IF e.Collection = l.options.CollectionName
    THEN Skipped
    ELSE IF originalRecord = NilRecord
         THEN [Skipped EXCEPT !.nextCalled = FALSE]
         ELSE Logged(l, colls, e.Record, originalRecord, e.Collection, EventTypeUpdateReq,
                     RequestInfoMap(e), env, TRUE)

\* l.app.OnRecordUpdateRequest().BindFunc(...); originalRecord is what
\* l.app.FindRecordById(e.Collection.Name, e.Record.Id) returned (nil on error)
OnRecordUpdateRequest(l, colls, e, originalRecord, env) ==
    IF e.Collection = l.options.CollectionName
    THEN Skipped
    ELSE Logged(l, colls, e.Record, originalRecord, e.Collection, EventTypeUpdateReq, RequestInfoMap(e),
                    env, TRUE)

\* A delete-request hook that hands the record over as the after-state
OnRecordDeleteRequest_AsAfter(l, colls, e, env) ==
    IF e.Collection = l.options.CollectionName
    THEN Skipped
    ELSE Logged(l, colls, e.Record, NilRecord, e.Collection, EventTypeDeleteReq,
                RequestInfoMap(e), env, TRUE)

\* l.app.OnRecordDeleteRequest().BindFunc(...)
OnRecordDeleteRequest(l, colls, e, env) ==
    IF e.Collection = l.options.CollectionName
    THEN Skipped
    ELSE Logged(l, colls, NilRecord, e.Record, e.Collection, EventTypeDeleteReq, RequestInfoMap(e),
                    env, TRUE)

\* An auth hook that leaves the auth method out of the request information
AuthInfoMap_NoMethod(e) ==
    [k \in (DOMAIN RequestInfoMap(e)) \cup {AuditLogFields.UserID} |->
        IF k = AuditLogFields.UserID THEN e.Record.id ELSE RequestInfoMap(e)[k]]

\* The requestInfo map the auth hook builds (hooks.go 179-199)
AuthInfoMap(e) ==
    LET info == e.RequestInfo
        dom  == {AuditLogFields.AuthMethod, AuditLogFields.RequestIP}
                \cup (IF e.Record # NilRecord THEN {AuditLogFields.UserID} ELSE {})
                \cup (IF info.err THEN {}
                      ELSE {AuditLogFields.RequestMethod, AuditLogFields.RequestURL})
    IN  [k \in dom |->
            CASE k = AuditLogFields.AuthMethod    -> e.AuthMethod
              [] k = AuditLogFields.UserID        -> e.Record.id
              [] k = AuditLogFields.RequestIP     -> e.RealIP
              [] k = AuditLogFields.RequestMethod -> info.Method
              [] OTHER                            -> info.Context]

\* l.app.OnRecordAuthRequest().BindFunc(...): e.Record.Collection() on a nil
\* record dereferences nil, and the hook panics before logEvent is called
OnRecordAuthRequest(l, colls, e, env) ==
    IF e.Record = NilRecord
    THEN Panicked
    ELSE Logged(l, colls, e.Record, NilRecord, e.Record.collection, EventTypeAuth, AuthInfoMap(e),
                    env, TRUE)

(***************************************************************************)
(* Platform operations and the events they deliver                         *)
(***************************************************************************)
ObservedCollection == "widgets"

AuthCollection == "users"

RecordIds == {"r1", "r2"}

\* (user, created_by) of the records the application writes
OwnerFields == {<<"U1", "U2">>, <<Nil, "U2">>, <<Nil, Nil>>}

\* A header value is the sequence of its lexical tokens
HeadersBoth ==
    [h \in {"cf-connecting-ip", "x-forwarded-for"} |->
        IF h = "cf-connecting-ip" THEN <<"1.1.1.1">>
        ELSE <<"2.2.2.2", ",", " ", "3.3.3.3">>]

HeadersForwardedOnly ==
    [h \in {"x-forwarded-for"} |-> <<"2.2.2.2", ",", " ", "3.3.3.3">>]

NoHeaders == [h \in {} |-> <<>>]

\* e.RealIP(): the platform's answer (the connection's remote address unless
\* the platform is configured to trust a proxy header)
RealIPs == {"9.9.9.9"}

\* e.AuthMethod: how the record authenticated
AuthMethods == {"password", "oauth2"}

\* What the model draws an operation's inputs and faults from.  Sequences:
\* several operations, storage faults only.  OneEvent: the first operation
\* after startup, with every input and every fault.
Sequences ==
    [owners    |-> {<<Nil, "U2">>},
     auths     |-> {Nil},
     headers   |-> {HeadersBoth},
     infoErrs  |-> {FALSE},
     marshals  |-> {TRUE},
     ops       |-> MaxOps]

OneEvent ==
    [owners    |-> OwnerFields,
     auths     |-> {Nil, "U3"},
     headers   |-> {HeadersBoth, HeadersForwardedOnly},
     infoErrs  |-> BOOLEAN,
     marshals  |-> BOOLEAN,
     ops       |-> 1]

\* e.RequestInfo(): an error, or the request's method, context, principal and headers
RequestInfoFailed ==
    [err |-> TRUE, Method |-> Nil, Context |-> Nil, Auth |-> Nil, Headers |-> NoHeaders]

RequestInfos(method, in) ==
    {i \in {RequestInfoFailed} : TRUE \in in.infoErrs}
    \cup {i \in [err : {FALSE}, Method : {method}, Context : {"default"},
                 Auth : in.auths, Headers : in.headers] : FALSE \in in.infoErrs}

\* The outcomes of the calls logEvent makes on the platform and on encoding/json
\* (the definition LogEnvs above, restricted to the faults drawn)
Envs(in) ==
    {env \in LogEnvs : env.marshalBeforeOk \in in.marshals /\ env.marshalAfterOk \in in.marshals}

NoEvent == [none |-> TRUE]

NoInv == [hook |-> Nil]

IdleProc ==
    [pc |-> "idle", kind |-> Nil, via |-> Nil, e |-> NoEvent,
     reqInv |-> NoInv, lifeInv |-> NoInv]

\* A hook invocation: the hook's outcome, how often it called e.Next(), what it
\* returned to the platform and where it stands ("saving": about to call
\* l.app.Save, "inNext": inside e.Next())
Inv(hook, out, returned, status) ==
    [hook |-> hook, out |-> out, nextCalls |-> IF out.nextCalled THEN 1 ELSE 0,
     returned |-> returned, status |-> status]

\* The record an operation of this kind carries
EventRecords(kind, coll, in) ==
    IF coll # ObservedCollection
    THEN {AuditCollectionRecord(coll)}
    ELSE CASE kind = "create" ->
                { Record(id, coll, o[1], o[2], "a") :
                    id \in {i \in RecordIds : store[i] = NilRecord}, o \in in.owners }
           [] kind = "update" ->
                { Record(id, coll, o[1], o[2], "b") :
                    id \in {i \in RecordIds : store[i] # NilRecord}, o \in in.owners }
           [] OTHER ->
                { store[id] : id \in {i \in RecordIds : store[i] # NilRecord} }

MethodOf(kind) ==
    CASE kind = "create" -> "POST"
      [] kind = "update" -> "PATCH"
      [] kind = "delete" -> "DELETE"
      [] OTHER           -> "POST"

\* A logger that holds the options as the application wrote them, not the
\* ones Setup settled on
logger_AsSupplied ==
    [options |-> supplied]

\* The logger newLogger returns: it holds the options Setup works with
logger ==
    [options |-> options]

(***************************************************************************)
(* Startup: Setup, the bootstrap hook, restart                             *)
(***************************************************************************)
InitWith(owners) ==
    /\ phase = "new"
    /\ options \in OptionInputs
    /\ supplied = options
    /\ registered = {}
    /\ bootErr = Nil
    /\ collections = <<[name |-> ObservedCollection, schema |-> ForeignSchema],
                       [name |-> AuthCollection, schema |-> ForeignSchema]>>
    /\ \E o \in owners :
         store = [i \in RecordIds |->
                    IF i = "r1" THEN Record("r1", ObservedCollection, o[1], o[2], "a")
                    ELSE NilRecord]
    /\ auditLog = <<>>
    /\ proc = [p \in Procs |-> IdleProc]
    /\ nOps = 0

Init == InitWith({<<"U1", "U2">>})

InitOne == InitWith(OwnerFields)

\* Setup(app, options): the options are normalised and the bootstrap hook is bound
Setup ==
    /\ phase = "new"
    /\ options' = applyDefaultOptions(options)
    /\ phase' = "bound"
    /\ UNCHANGED <<supplied, registered, bootErr, collections, store, auditLog, proc, nOps>>

\* The bootstrap hook, audit.go 29-31: e.Next()
BootstrapNext ==
    /\ phase = "bound"
    /\ \E ok \in BOOLEAN :
         IF ok THEN phase' = "ensure" /\ bootErr' = bootErr
         ELSE phase' = "failed" /\ bootErr' = ErrBootstrap
    /\ UNCHANGED <<options, supplied, registered, collections, store, auditLog, proc, nOps>>

\* The bootstrap hook, audit.go 33-39
BootstrapEnsure ==
    /\ phase = "ensure"
    /\ \E saveOk \in BOOLEAN :
         IF options.CreateAuditCollection
         THEN LET r == ensureAuditCollection(collections, options.CollectionName, saveOk)
              IN  /\ collections' = r.colls
                  /\ IF r.err # Nil
                     THEN phase' = "failed" /\ bootErr' = r.err
                     ELSE phase' = "import" /\ bootErr' = bootErr
         ELSE /\ collections' = collections
              /\ phase' = "import"
              /\ bootErr' = bootErr
    /\ UNCHANGED <<options, supplied, registered, store, auditLog, proc, nOps>>

\* A bootstrap hook that returns every import error, whatever FailOnSchemaError says
BootstrapImport_AlwaysFatal ==
    /\ phase = "import"
    /\ \E outcome \in ImportOutcomes, saveOk \in BOOLEAN :
         IF options.SchemaPath # ""
         THEN LET r == importCollectionsFromFile(collections, options.CollectionName,
                                                 outcome, saveOk)
              IN  /\ collections' = r.colls
                  /\ IF r.err # Nil
                     THEN phase' = "failed" /\ bootErr' = r.err
                     ELSE phase' = "register" /\ bootErr' = bootErr
         ELSE /\ collections' = collections
              /\ phase' = "register"
              /\ bootErr' = bootErr
    /\ UNCHANGED <<options, supplied, registered, store, auditLog, proc, nOps>>

\* The bootstrap hook, audit.go 41-50; "warned": the import failed, the warning
\* of line 45 is logged and the hook goes on
BootstrapImport ==
    /\ phase = "import"
    /\ \E outcome \in ImportOutcomes, saveOk \in BOOLEAN :
         IF options.SchemaPath # ""
         THEN LET r == importCollectionsFromFile(collections, options.CollectionName,
                                                 outcome, saveOk)
              IN  /\ collections' = r.colls
                  /\ IF r.err # Nil /\ options.FailOnSchemaError
                     THEN phase' = "failed" /\ bootErr' = r.err
                     ELSE /\ phase' = IF r.err # Nil THEN "warned" ELSE "register"
                          /\ bootErr' = bootErr
         ELSE /\ collections' = collections
              /\ phase' = "register"
              /\ bootErr' = bootErr
    /\ UNCHANGED <<options, supplied, registered, store, auditLog, proc, nOps>>

\* A bootstrap hook that binds all three hook classes whatever the flags say
BootstrapRegister_All ==
    /\ phase \in {"register", "warned"}
    /\ registered' = {"standard", "request", "auth"}
    /\ phase' = "running"
    /\ UNCHANGED <<options, supplied, bootErr, collections, store, auditLog, proc, nOps>>

\* The bootstrap hook, audit.go 52-69: newLogger and the hook registration
BootstrapRegister ==
    /\ phase \in {"register", "warned"}
    /\ registered' =
         (IF options.EnableStandardEvents THEN {"standard"} ELSE {})
         \cup (IF options.EnableRequestEvents THEN {"request"} ELSE {})
         \cup (IF options.EnableAuthEvents THEN {"auth"} ELSE {})
    /\ phase' = "running"
    /\ UNCHANGED <<options, supplied, bootErr, collections, store, auditLog, proc, nOps>>

\* The application process exits and starts again: the database stays, the
\* bound hooks are gone and the bootstrap hook runs anew
Restart ==
    /\ phase \in {"running", "failed"}
    /\ \A p \in Procs : proc[p].pc = "idle"
    /\ phase' = "bound"
    /\ registered' = {}
    /\ bootErr' = Nil
    /\ UNCHANGED <<options, supplied, collections, store, auditLog, proc, nOps>>

(***************************************************************************)
(* Operations of the platform the hooks observe                            *)
(***************************************************************************)
\* A record create, update or delete arrives, through the API ("api": request
\* hook, commit, lifecycle hook) or from code ("direct": commit, lifecycle hook)
StartOp(p, in) ==
    /\ phase = "running"
    /\ proc[p].pc = "idle"
    /\ nOps < in.ops
    /\ \E kind \in {"create", "update", "delete"}, via \in {"api", "direct"},
          coll \in {ObservedCollection, options.CollectionName} :
         \E rec \in EventRecords(kind, coll, in),
            info \in (IF via = "api" THEN RequestInfos(MethodOf(kind), in)
                      ELSE {RequestInfoFailed}),
            ip \in RealIPs,
            idSupplied \in (IF via = "api" /\ kind = "create" /\ coll = ObservedCollection
                            THEN BOOLEAN ELSE {TRUE}) :
           proc' = [proc EXCEPT ![p] =
                      [IdleProc EXCEPT
                         !.pc = IF via = "api" THEN "request" ELSE "commit",
                         !.kind = kind,
                         !.via = via,
                         !.e = [Record |-> rec, Collection |-> coll,
                                idSupplied |-> idSupplied, hasRealIP |-> TRUE,
                                hasRequestInfo |-> TRUE,
                                RealIP |-> ip, RequestInfo |-> info,
                                AuthMethod |-> Nil]]]
    /\ nOps' = nOps + 1
    /\ UNCHANGED <<phase, options, supplied, registered, bootErr, collections, store,
                   auditLog>>

\* A record authenticates: the platform is about to answer an auth request
StartAuth(p, in) ==
    /\ phase = "running"
    /\ proc[p].pc = "idle"
    /\ nOps < in.ops
    /\ \E rec \in {Record("u1", AuthCollection, Nil, Nil, "a"), NilRecord,
                   AuditCollectionRecord(options.CollectionName)},
          info \in {i \in RequestInfos("POST", in) : i.Auth = Nil},
          ip \in RealIPs,
          method \in AuthMethods :
         proc' = [proc EXCEPT ![p] =
                    [IdleProc EXCEPT
                       !.pc = "auth",
                       !.kind = "auth",
                       !.via = "api",
                       !.e = [Record |-> rec,
                              Collection |-> IF rec = NilRecord THEN Nil
                                             ELSE rec.collection,
                              hasRealIP |-> TRUE, hasRequestInfo |-> TRUE,
                              RealIP |-> ip,
                              RequestInfo |-> info, AuthMethod |-> method]]]
    /\ nOps' = nOps + 1
    /\ UNCHANGED <<phase, options, supplied, registered, bootErr, collections, store,
                   auditLog>>

\* l.app.FindRecordById(collection, id): the stored record, nil on any error
FindRecordById(coll, id, lookupOk) ==
    IF lookupOk /\ coll = ObservedCollection /\ id \in RecordIds
    THEN store[id]
    ELSE NilRecord

\* The event as a create-request hook sees it.  The platform gives a new record
\* its id when it saves it, inside e.Next(): while the hook runs, the record of
\* a request that names no id has none (e.Record.Id is the empty string).
RequestEvent(e) ==
    IF e.idSupplied THEN e ELSE [e EXCEPT !.Record.id = ""]

\* The fields a collection requires of its records, among those logEvent sets
RequiredFields(schema) ==
    {x[1] : x \in {y \in schema.fields : y[3]}} \cap EntryFields

\* l.app.Save validates the record against its collection: a record with a
\* required field left empty is refused
Accepts(colls, name, saved) ==
    \A n \in 1..Len(saved), c \in 1..Len(colls) :
        colls[c].name = name
            => \A f \in RequiredFields(colls[c].schema) : saved[n][f] # ""

\* The request hook bound for this kind of operation, run up to its e.Next()
RequestHookOutcome(kind, e, lookupOk, env) ==
    CASE kind = "create" -> OnRecordCreateRequest(logger, collections, RequestEvent(e), env)
      [] kind = "update" ->
            OnRecordUpdateRequest(logger, collections, e,
                FindRecordById(e.Collection, e.Record.id, lookupOk), env)
      [] OTHER -> OnRecordDeleteRequest(logger, collections, e, env)

RequestHookName(kind) ==
    CASE kind = "create" -> "OnRecordCreateRequest"
      [] kind = "update" -> "OnRecordUpdateRequest"
      [] OTHER           -> "OnRecordDeleteRequest"

\* The platform triggers OnRecord<Kind>Request; the hook (when bound) runs up to
\* its call of e.Next()
RequestHook(p, in) ==
    /\ proc[p].pc = "request"
    /\ IF "request" \in registered
       THEN \E env \in Envs(in), lookupOk \in BOOLEAN :
              LET out == RequestHookOutcome(proc[p].kind, proc[p].e, lookupOk, env)
              IN  /\ Accepts(collections, options.CollectionName, out.saved)
                  /\ auditLog' = Save(auditLog, Persisted(out.saved, MaxDepth))
                  /\ proc' = [proc EXCEPT
                        ![p].pc = "commit",
                        ![p].reqInv = Inv(RequestHookName(proc[p].kind), out, Nil, "inNext")]
       ELSE /\ auditLog' = auditLog
            /\ proc' = [proc EXCEPT ![p].pc = "commit"]
    /\ UNCHANGED <<phase, options, supplied, registered, bootErr, collections, store, nOps>>

\* The request hook's e.Next() returned: the hook returns that value
ReturnFromNext(inv, result) ==
    IF inv = NoInv THEN inv
    ELSE [inv EXCEPT !.returned = result, !.status = "returned"]

\* A platform whose commit writes nothing
Committed_Nothing(kind, rec) ==
    store

\* The store after the operation committed
Committed(kind, rec) ==
    IF rec.collection # ObservedCollection THEN store
    ELSE IF kind = "delete" THEN [store EXCEPT ![rec.id] = NilRecord]
    ELSE [store EXCEPT ![rec.id] = rec]

\* A platform that undoes the request hook's audit write when the operation
\* fails: the log shrinks back to what it was before the hook
Commit_Rollback(p) ==
    /\ proc[p].pc = "commit"
    /\ \E ok \in BOOLEAN :
         IF ok
         THEN /\ store' = Committed(proc[p].kind, proc[p].e.Record)
              /\ proc' = [proc EXCEPT ![p].pc = "lifecycle"]
              /\ auditLog' = auditLog
         ELSE /\ store' = store
              /\ proc' = [proc EXCEPT
                    ![p].pc = "done",
                    ![p].reqInv = ReturnFromNext(proc[p].reqInv, ErrDownstream)]
              /\ auditLog' = IF proc[p].reqInv = NoInv THEN auditLog
                             ELSE SubSeq(auditLog, 1,
                                         Len(auditLog) - Len(proc[p].reqInv.out.saved))
    /\ UNCHANGED <<phase, options, supplied, registered, bootErr, collections, nOps>>

\* The platform validates and writes the record (inside e.Next() on the API
\* path); it may fail, and then no lifecycle success hook fires
Commit(p) ==
    /\ proc[p].pc = "commit"
    /\ \E ok \in BOOLEAN :
         IF ok
         THEN /\ store' = Committed(proc[p].kind, proc[p].e.Record)
              /\ proc' = [proc EXCEPT ![p].pc = "lifecycle"]
         ELSE /\ store' = store
              /\ proc' = [proc EXCEPT
                    ![p].pc = "done",
                    ![p].reqInv = ReturnFromNext(proc[p].reqInv, ErrDownstream)]
    /\ UNCHANGED <<phase, options, supplied, registered, bootErr, collections, auditLog, nOps>>

LifecycleHookOutcome(kind, e, env) ==
    CASE kind = "create" -> OnRecordAfterCreateSuccess(logger, collections, e, env)
      [] kind = "update" -> OnRecordAfterUpdateSuccess(logger, collections, e, env)
      [] OTHER           -> OnRecordAfterDeleteSuccess(logger, collections, e, env)

LifecycleHookName(kind) ==
    CASE kind = "create" -> "OnRecordAfterCreateSuccess"
      [] kind = "update" -> "OnRecordAfterUpdateSuccess"
      [] OTHER           -> "OnRecordAfterDeleteSuccess"

\* The platform triggers OnRecordAfter<Kind>Success after the commit; the hook
\* (when bound) runs to its return: e.Next()'s value on the skip path (nothing
\* follows it in the chain), logEvent's value otherwise
LifecycleHook(p, in) ==
    /\ proc[p].pc = "lifecycle"
    /\ IF "standard" \in registered
       THEN \E env \in Envs(in) :
              LET out == LifecycleHookOutcome(proc[p].kind, proc[p].e, env)
              IN  /\ Accepts(collections, options.CollectionName, out.saved)
                  /\ auditLog' = Save(auditLog, Persisted(out.saved, MaxDepth))
                  /\ proc' = [proc EXCEPT
                        ![p].pc = "done",
                        ![p].lifeInv = Inv(LifecycleHookName(proc[p].kind), out,
                                           IF out.nextCalled THEN Nil ELSE out.logErr,
                                           "returned"),
                        ![p].reqInv = ReturnFromNext(proc[p].reqInv, Nil)]
       ELSE /\ auditLog' = auditLog
            /\ proc' = [proc EXCEPT
                  ![p].pc = "done",
                  ![p].reqInv = ReturnFromNext(proc[p].reqInv, Nil)]
    /\ UNCHANGED <<phase, options, supplied, registered, bootErr, collections, store, nOps>>

\* The platform triggers OnRecordAuthRequest; the hook (when bound) runs to its
\* return, e.Next() (the rest of the auth response) included
AuthHook(p, in) ==
    /\ proc[p].pc = "auth"
    /\ IF "auth" \in registered
       THEN \E env \in Envs(in), nextOk \in BOOLEAN :
              LET out == OnRecordAuthRequest(logger, collections, proc[p].e, env)
              IN  /\ Accepts(collections, options.CollectionName, out.saved)
                  /\ auditLog' = Save(auditLog, Persisted(out.saved, MaxDepth))
                  /\ proc' = [proc EXCEPT
                        ![p].pc = "done",
                        ![p].reqInv =
                            Inv("OnRecordAuthRequest", out,
                                IF out.panicked THEN "panic"
                                ELSE IF nextOk THEN Nil ELSE ErrDownstream,
                                IF out.panicked THEN "panicked" ELSE "returned")]
       ELSE /\ auditLog' = auditLog
            /\ proc' = [proc EXCEPT ![p].pc = "done"]
    /\ UNCHANGED <<phase, options, supplied, registered, bootErr, collections, store, nOps>>

\* The platform is done with the operation
Finish(p) ==
    /\ proc[p].pc = "done"
    /\ proc' = [proc EXCEPT ![p] = IdleProc]
    /\ UNCHANGED <<phase, options, supplied, registered, bootErr, collections, store,
                   auditLog, nOps>>

Startup ==
    \/ Setup
    \/ BootstrapNext
    \/ BootstrapEnsure
    \/ BootstrapImport
    \/ BootstrapRegister
    \/ Restart

\* Sequences of operations
Next ==
    \/ Startup
    \/ \E p \in Procs : StartOp(p, Sequences)
    \/ \E p \in Procs : StartAuth(p, Sequences)
    \/ \E p \in Procs : RequestHook(p, Sequences)
    \/ \E p \in Procs : Commit(p)
    \/ \E p \in Procs : LifecycleHook(p, Sequences)
    \/ \E p \in Procs : AuthHook(p, Sequences)
    \/ \E p \in Procs : Finish(p)

Spec == Init /\ [][Next]_vars

\* One operation, drawn from every input and fault
NextOne ==
    \/ Startup
    \/ \E p \in Procs : StartOp(p, OneEvent)
    \/ \E p \in Procs : StartAuth(p, OneEvent)
    \/ \E p \in Procs : RequestHook(p, OneEvent)
    \/ \E p \in Procs : Commit(p)
    \/ \E p \in Procs : LifecycleHook(p, OneEvent)
    \/ \E p \in Procs : AuthHook(p, OneEvent)
    \/ \E p \in Procs : Finish(p)

SpecOne == InitOne /\ [][NextOne]_vars

(***************************************************************************)
(* extractIP on its own: events of every shape, headers of every content   *)
(***************************************************************************)
\* A header the request does not carry
Absent == <<"-">>

\* What a request may carry under each header name
HeaderValues(h) ==
    CASE h = "cf-connecting-ip" -> {Absent, <<>>, <<"1.1.1.1">>}
      [] h = "x-forwarded-for"  ->
            {Absent, <<>>, <<"2.2.2.2", ",", " ", "3.3.3.3">>,
             <<" ", "2.2.2.2", " ">>, <<",", " ", "3.3.3.3">>}
      [] h = "x-real-ip"        -> {Absent, <<>>, <<"4.4.4.4">>}
      [] OTHER                  -> {Absent, <<>>, <<"5.5.5.5">>}

HeaderChoices == {c \in [HeaderNames -> UNION {HeaderValues(h) : h \in HeaderNames}] :
                    \A h \in HeaderNames : c[h] \in HeaderValues(h)}

\* reqInfo.Headers of a request carrying these values, the names spelled in
\* lower case or as clients usually write them
HeadersOf(c, lower) ==
    [k \in {IF lower THEN h ELSE Canonical(h) : h \in {x \in HeaderNames : c[x] # Absent}}
        |-> c[ToLower(k)]]

\* The events extractIP may be handed: with the RealIP accessor, without any
\* accessor, with a RequestInfo that fails, with a RequestInfo that answers
IPEvents ==
    {[Record |-> NilRecord, Collection |-> Nil, hasRealIP |-> shape = "realIP",
      hasRequestInfo |-> shape # "bare", RealIP |-> "9.9.9.9",
      RequestInfo |-> [err |-> shape = "infoFails", Method |-> "GET",
                       Context |-> "default", Auth |-> Nil,
                       Headers |-> HeadersOf(c, lower)],
      AuthMethod |-> Nil] :
        shape \in {"realIP", "bare", "infoFails", "headers"},
        c \in HeaderChoices, lower \in BOOLEAN}

InitIP ==
    /\ phase = "running"
    /\ options = DefaultOptions
    /\ supplied = DefaultOptions
    /\ registered = {}
    /\ bootErr = Nil
    /\ collections = <<>>
    /\ store = [i \in RecordIds |-> NilRecord]
    /\ auditLog = <<>>
    /\ \E e \in IPEvents :
         proc = [p \in Procs |-> [IdleProc EXCEPT !.pc = "extract", !.kind = "ip", !.e = e]]
    /\ nOps = 0

\* extractIP(e) is called and returns
ExtractIP(p) ==
    /\ proc[p].pc = "extract"
    /\ proc' = [proc EXCEPT
          ![p].pc = "done",
          ![p].reqInv = [hook |-> "extractIP", returned |-> extractIP(proc[p].e),
                         status |-> "returned"]]
    /\ UNCHANGED <<phase, options, supplied, registered, bootErr, collections, store,
                   auditLog, nOps>>

NextIP == \E p \in Procs : ExtractIP(p)

SpecIP == InitIP /\ [][NextIP]_vars

(***************************************************************************)
(* Hooks of several requests at once.  The platform runs each request on   *)
(* its own goroutine; a hook works on its own event and its own new audit  *)
(* record, and meets the others only in the platform's storage.  Each hook *)
(* is therefore taken in two steps: up to its call of l.app.Save (the gate, *)
(* the lookup of the audit collection, the record being filled in), and    *)
(* from that call to the end.                                              *)
(***************************************************************************)
Workers == {"p1", "p2"}

Concurrent ==
    [owners    |-> {<<Nil, "U2">>},
     auths     |-> {Nil},
     headers   |-> {HeadersBoth},
     infoErrs  |-> {FALSE},
     marshals  |-> {TRUE},
     ops       |-> 2]

\* The application is up: Setup ran with the default options or with a filter,
\* the bootstrap hook created the audit collection and bound the hooks
InitConcurrent ==
    /\ phase = "running"
    /\ options \in {DefaultOptions, [DefaultOptions EXCEPT !.EventFilter = "requestsOnly"]}
    /\ supplied = options
    /\ registered = {"standard", "request", "auth"}
    /\ bootErr = Nil
    /\ collections = <<[name |-> ObservedCollection, schema |-> ForeignSchema],
                       [name |-> AuthCollection, schema |-> ForeignSchema],
                       [name |-> options.CollectionName, schema |-> AuditCollectionSchema]>>
    /\ store = [i \in RecordIds |->
                  IF i = "r1" THEN Record("r1", ObservedCollection, "U1", "U2", "a")
                  ELSE NilRecord]
    /\ auditLog = <<>>
    /\ proc = [p \in Workers |-> IdleProc]
    /\ nOps = 0

\* The request hook of worker p runs up to logEvent's call of l.app.Save
RequestHookBegin(p, in) ==
    /\ proc[p].pc = "request"
    /\ "request" \in registered
    /\ \E env \in Envs(in), lookupOk \in BOOLEAN :
         LET out == RequestHookOutcome(proc[p].kind, proc[p].e, lookupOk, env)
         IN  /\ Accepts(collections, options.CollectionName, out.saved)
             /\ proc' = [proc EXCEPT
                   ![p].pc = "requestSave",
                   ![p].reqInv = Inv(RequestHookName(proc[p].kind), out, Nil, "saving")]
    /\ UNCHANGED <<phase, options, supplied, registered, bootErr, collections, store,
                   auditLog, nOps>>

\* l.app.Save of the request hook's audit record, and the hook up to its e.Next()
RequestHookSave(p) ==
    /\ proc[p].pc = "requestSave"
    /\ auditLog' = Save(auditLog, Persisted(proc[p].reqInv.out.saved, MaxDepth))
    /\ proc' = [proc EXCEPT ![p].pc = "commit", ![p].reqInv.status = "inNext"]
    /\ UNCHANGED <<phase, options, supplied, registered, bootErr, collections, store, nOps>>

\* The lifecycle hook of worker p runs up to logEvent's call of l.app.Save
LifecycleHookBegin(p, in) ==
    /\ proc[p].pc = "lifecycle"
    /\ "standard" \in registered
    /\ \E env \in Envs(in) :
         LET out == LifecycleHookOutcome(proc[p].kind, proc[p].e, env)
         IN  /\ Accepts(collections, options.CollectionName, out.saved)
             /\ proc' = [proc EXCEPT
                   ![p].pc = "lifecycleSave",
                   ![p].lifeInv = Inv(LifecycleHookName(proc[p].kind), out,
                                      IF out.nextCalled THEN Nil ELSE out.logErr, "saving")]
    /\ UNCHANGED <<phase, options, supplied, registered, bootErr, collections, store,
                   auditLog, nOps>>

\* l.app.Save of the lifecycle hook's audit record, and the hook's return
LifecycleHookSave(p) ==
    /\ proc[p].pc = "lifecycleSave"
    /\ auditLog' = Save(auditLog, Persisted(proc[p].lifeInv.out.saved, MaxDepth))
    /\ proc' = [proc EXCEPT
          ![p].pc = "done",
          ![p].lifeInv.status = "returned",
          ![p].reqInv = ReturnFromNext(proc[p].reqInv, Nil)]
    /\ UNCHANGED <<phase, options, supplied, registered, bootErr, collections, store, nOps>>

\* Two workers, one operation each, their steps in any order
NextConcurrent ==
    \/ \E p \in Workers : StartOp(p, Concurrent)
    \/ \E p \in Workers : RequestHookBegin(p, Concurrent)
    \/ \E p \in Workers : RequestHookSave(p)
    \/ \E p \in Workers : Commit(p)
    \/ \E p \in Workers : LifecycleHookBegin(p, Concurrent)
    \/ \E p \in Workers : LifecycleHookSave(p)

SpecConcurrent == InitConcurrent /\ [][NextConcurrent]_vars

(***************************************************************************)
(* Properties                                                              *)
(***************************************************************************)
\* The hook invocations of the operation a worker is in
InvsOf(p) == {i \in {proc[p].reqInv, proc[p].lifeInv} : i # NoInv}

Invocations == UNION {InvsOf(p) : p \in Procs}

\* The invocations that called logEvent, and those whose call saved an entry
Calls == {i \in Invocations : i.out.logCalled}

Saved == {i \in Calls : i.out.saved # <<>>}

Entry(i) == i.out.saved[1]

Has(entry, f) == entry[f] # Unset(f)

\* What the configured filter says (TRUE when none is configured)
FilterAllows(collectionName, eventType) ==
    IF options.EventFilter = Nil THEN TRUE
    ELSE EventFilter(options.EventFilter, collectionName, eventType)

AuditCollectionExists == FindCollectionByNameOrId(collections, options.CollectionName)

\* C1 (self-exclusion): no saved audit entry names the audit collection as its
\* collection_name, and an event on the audit collection saves no entry,
\* whatever its type and whatever the filter answers.
C1_SelfExclusion ==
    /\ \A n \in 1..Len(auditLog) :
         auditLog[n][AuditLogFields.CollectionName] # options.CollectionName
    /\ \A p \in Procs :
         proc[p].pc # "idle" /\ proc[p].e.Collection = options.CollectionName
            => \A i \in InvsOf(p) : i.out.saved = <<>>

\* An API operation on the audit collection ran through its request and its
\* lifecycle hook under a filter that allows everything, after another
\* operation had been logged
C1_Witness ==
    \E p \in Procs :
        /\ proc[p].pc = "done"
        /\ proc[p].e.Collection = options.CollectionName
        /\ options.EventFilter = "allowAll"
        /\ proc[p].reqInv # NoInv
        /\ proc[p].lifeInv # NoInv
        /\ auditLog # <<>>

\* C2 (filter authority, as claimed): a logEvent call on a non-audit collection
\* saves no entry when the filter denies the pair and exactly one when the
\* filter allows it or none is configured.
C2_FilterAuthority ==
    \A i \in Calls :
        i.out.collectionName # options.CollectionName
            => Len(i.out.saved) =
                 IF FilterAllows(i.out.collectionName, i.out.eventType) THEN 1 ELSE 0

\* C2 (amended): a denied pair saves nothing and returns no error; an allowed
\* pair saves exactly one entry when the audit collection is found and the
\* save succeeds, and otherwise saves nothing and returns the error.
C2_FilterAuthorityStored ==
    \A i \in Calls :
        i.out.collectionName # options.CollectionName
            => LET allowed == FilterAllows(i.out.collectionName, i.out.eventType)
                   stored  == allowed /\ AuditCollectionExists /\ i.out.env.saveOk
               IN  /\ Len(i.out.saved) = IF stored THEN 1 ELSE 0
                   /\ (i.out.logErr = Nil) <=> (stored \/ ~allowed)

\* A filter that allows request events only let a create request through, and
\* the call saved its one entry
C2_Witness ==
    \E i \in Calls :
        /\ options.EventFilter = "requestsOnly"
        /\ i.out.eventType = EventTypeCreateReq
        /\ i.out.collectionName = ObservedCollection
        /\ Len(i.out.saved) = 1

\* C3 (logger errors never reach the operation, as claimed): whatever logEvent
\* returned, the value a hook returns to the platform is not the logger's error.
C3_LoggerErrorsDiscarded ==
    \A i \in Calls :
        i.status = "returned" /\ i.out.logErr # Nil => i.returned # i.out.logErr

\* C4 (pass-through, as claimed): a hook that has run to its end called the
\* event's Next exactly once.
C4_PassThrough ==
    \A i \in Invocations : i.status # "inNext" => i.nextCalls = 1

\* C5 (change-tracking table, as claimed): the snapshots of a saved entry are
\* fixed by its event type; update_request has before_changes exactly when the
\* lookup of the stored record succeeded.
C5_ChangeTrackingTable ==
    \A i \in Saved :
        LET en == Entry(i)
            t  == en[AuditLogFields.EventType]
        IN  /\ t \in {EventTypeCreate, EventTypeUpdate, EventTypeCreateReq, EventTypeAuth}
                 => Has(en, AuditLogFields.AfterChanges)
                    /\ ~Has(en, AuditLogFields.BeforeChanges)
            /\ t \in {EventTypeDelete, EventTypeDeleteReq}
                 => Has(en, AuditLogFields.BeforeChanges)
                    /\ ~Has(en, AuditLogFields.AfterChanges)
            /\ t = EventTypeUpdateReq
                 => Has(en, AuditLogFields.AfterChanges)
                    /\ (Has(en, AuditLogFields.BeforeChanges) <=> i.out.before # NilRecord)

\* C5 (amended): the event type fixes which records the hook supplies (the
\* update request's before-record being the lookup's result), and a snapshot
\* is present exactly when its record was supplied and its serialization
\* succeeded; it then holds that record's serialized fields.
C5_ChangeTrackingSerialized ==
    \A i \in Saved :
        LET en == Entry(i)
            t  == en[AuditLogFields.EventType]
        IN  /\ t \in {EventTypeCreate, EventTypeUpdate, EventTypeCreateReq, EventTypeAuth}
                 => i.out.after # NilRecord /\ i.out.before = NilRecord
            /\ t \in {EventTypeDelete, EventTypeDeleteReq}
                 => i.out.before # NilRecord /\ i.out.after = NilRecord
            /\ t = EventTypeUpdateReq => i.out.after # NilRecord
            /\ Has(en, AuditLogFields.AfterChanges)
                 <=> (i.out.after # NilRecord /\ i.out.env.marshalAfterOk)
            /\ Has(en, AuditLogFields.BeforeChanges)
                 <=> (i.out.before # NilRecord /\ i.out.env.marshalBeforeOk)
            /\ Has(en, AuditLogFields.AfterChanges)
                 => en[AuditLogFields.AfterChanges] = MarshalMap(RecordMap(i.out.after))
            /\ Has(en, AuditLogFields.BeforeChanges)
                 => en[AuditLogFields.BeforeChanges] = MarshalMap(RecordMap(i.out.before))

\* An update request whose lookup succeeded saved an entry with both snapshots,
\* and the two differ
C5_Witness ==
    \E i \in Saved :
        /\ Entry(i)[AuditLogFields.EventType] = EventTypeUpdateReq
        /\ Has(Entry(i), AuditLogFields.BeforeChanges)
        /\ Has(Entry(i), AuditLogFields.AfterChanges)
        /\ Entry(i)[AuditLogFields.BeforeChanges] # Entry(i)[AuditLogFields.AfterChanges]

\* C6 (as claimed): every saved audit entry has before_changes or
\* after_changes; none has neither.
C6_SomeSnapshot ==
    \A n \in 1..Len(auditLog) :
        \/ Has(auditLog[n], AuditLogFields.BeforeChanges)
        \/ Has(auditLog[n], AuditLogFields.AfterChanges)

\* C6 (amended): every logEvent call is handed at least one record, and a saved
\* entry has neither snapshot only when the serialization of every record it
\* was handed failed.
C6_SomeSnapshotUnlessFailed ==
    \A i \in Saved :
        /\ i.out.after # NilRecord \/ i.out.before # NilRecord
        /\ (~Has(Entry(i), AuditLogFields.BeforeChanges)
            /\ ~Has(Entry(i), AuditLogFields.AfterChanges))
              => /\ i.out.after = NilRecord \/ ~i.out.env.marshalAfterOk
                 /\ i.out.before = NilRecord \/ ~i.out.env.marshalBeforeOk

\* An entry was saved although the serialization of its after-record failed;
\* it carries the before-record's snapshot only
C6_Witness ==
    \E i \in Saved :
        /\ i.out.after # NilRecord
        /\ i.out.before # NilRecord
        /\ ~i.out.env.marshalAfterOk
        /\ Has(Entry(i), AuditLogFields.BeforeChanges)
        /\ ~Has(Entry(i), AuditLogFields.AfterChanges)

\* The user or created_by field of a record, in that order
OwnerOf(record) ==
    IF record = NilRecord THEN Nil
    ELSE IF Get(record, "user") # Nil THEN Get(record, "user")
    ELSE Get(record, "created_by")

\* C7 (user-id precedence, as claimed): the saved user_id is the one of the
\* request context if there is one, else the after-record's user, else its
\* created_by, else the before-record's user, else its created_by, else absent
\* - the before-record being consulted also when an after-record is there.
C7_UserIdPrecedence ==
    \A i \in Saved :
        Entry(i)[AuditLogFields.UserID] =
            IF AuditLogFields.UserID \in DOMAIN i.out.requestInfo
               /\ i.out.requestInfo[AuditLogFields.UserID] # Nil
            THEN i.out.requestInfo[AuditLogFields.UserID]
            ELSE IF OwnerOf(i.out.after) # Nil THEN OwnerOf(i.out.after)
            ELSE OwnerOf(i.out.before)

RequestHookNames ==
    {"OnRecordCreateRequest", "OnRecordUpdateRequest", "OnRecordDeleteRequest"}

\* C8 (IP precedence, as claimed): the request_ip saved for a request event
\* whose headers hold cf-connecting-ip=1.1.1.1 and x-forwarded-for=2.2.2.2,
\* 3.3.3.3 is 1.1.1.1, and with only that x-forwarded-for it is 2.2.2.2.
C8_HeaderPrecedence ==
    \A p \in Procs :
        LET i == proc[p].reqInv
            e == proc[p].e
        IN  (i # NoInv /\ i.hook \in RequestHookNames /\ i.out.saved # <<>>
             /\ ~e.RequestInfo.err)
              => /\ e.RequestInfo.Headers = HeadersBoth
                      => Entry(i)[AuditLogFields.RequestIP] = "1.1.1.1"
                 /\ e.RequestInfo.Headers = HeadersForwardedOnly
                      => Entry(i)[AuditLogFields.RequestIP] = "2.2.2.2"

\* C8 (amended): a request or auth event exposes RealIP, and the saved
\* request_ip is what RealIP answered, whatever the headers hold; the header
\* precedence (cf-connecting-ip, then the first trimmed x-forwarded-for entry)
\* is what extractIP yields for the same request when the event exposes no
\* RealIP.
C8_RealIPRecorded ==
    \A p \in Procs :
        LET i    == proc[p].reqInv
            e    == proc[p].e
            bare == [e EXCEPT !.hasRealIP = FALSE]
        IN  (i # NoInv /\ i.out.saved # <<>>)
              => /\ Entry(i)[AuditLogFields.RequestIP] = e.RealIP
                 /\ extractIP(e) = <<e.RealIP>>
                 /\ (~e.RequestInfo.err /\ e.RequestInfo.Headers = HeadersBoth)
                      => extractIP(bare) = <<"1.1.1.1">>
                 /\ (~e.RequestInfo.err /\ e.RequestInfo.Headers = HeadersForwardedOnly)
                      => extractIP(bare) = <<"2.2.2.2">>

\* A create request carrying only x-forwarded-for=2.2.2.2, 3.3.3.3 saved an
\* entry whose request_ip is the RealIP answer
C8_Witness ==
    \E p \in Procs :
        /\ proc[p].reqInv # NoInv
        /\ proc[p].reqInv.hook = "OnRecordCreateRequest"
        /\ proc[p].reqInv.out.saved # <<>>
        /\ ~proc[p].e.RequestInfo.err
        /\ proc[p].e.RequestInfo.Headers = HeadersForwardedOnly
        /\ Entry(proc[p].reqInv)[AuditLogFields.RequestIP] = "9.9.9.9"

NamedAudit == {n \in 1..Len(collections) : collections[n].name = options.CollectionName}

\* C9 (idempotent provisioning): ensureAuditCollection called twice in a row
\* with one name leaves exactly one collection of that name, the second call
\* returning no error and changing nothing; and a bootstrap that finds the
\* collection in place leaves the collections as they are.
C9_IdempotentProvisioning ==
    /\ [](/\ Cardinality(NamedAudit) <= 1
          /\ \A s1 \in BOOLEAN, s2 \in BOOLEAN :
               LET first  == ensureAuditCollection(collections, options.CollectionName, s1)
                   second == ensureAuditCollection(first.colls, options.CollectionName, s2)
               IN  first.err = Nil
                     => /\ second.err = Nil
                        /\ second.colls = first.colls
                        /\ Cardinality({n \in 1..Len(second.colls) :
                               second.colls[n].name = options.CollectionName}) = 1)
    /\ [][(phase = "ensure" /\ options.CreateAuditCollection /\ AuditCollectionExists)
            => (collections' = collections /\ phase' = "import" /\ bootErr' = bootErr)]_vars

\* After a restart the bootstrap hook has run ensureAuditCollection again, on
\* the collection its first run created and entries were since saved into
C9_Witness ==
    /\ phase = "import"
    /\ options.CreateAuditCollection
    /\ options.SchemaPath = ""
    /\ auditLog # <<>>
    /\ \E n \in NamedAudit : collections[n].schema = AuditCollectionSchema

\* C10 (missing audit collection): a logEvent call that passes the policy gate
\* while the audit collection does not exist returns an error and saves no
\* entry, and the hook step leaves the collections as they were.
C10_MissingCollection ==
    /\ [](\A i \in Calls :
            (shouldLogEvent(logger, i.out.collectionName, i.out.eventType)
             /\ ~AuditCollectionExists)
               => i.out.logErr = ErrNotFound /\ i.out.saved = <<>>)
    /\ [][(\E p \in Procs : /\ proc[p].pc \in {"request", "lifecycle", "auth"}
                            /\ proc'[p].pc # proc[p].pc)
            => /\ collections' = collections
               /\ ~AuditCollectionExists => auditLog' = auditLog]_vars

\* A hook called logEvent for an event the gate lets through while the audit
\* collection was missing, and got the lookup's error
C10_Witness ==
    \E i \in Calls :
        /\ shouldLogEvent(logger, i.out.collectionName, i.out.eventType)
        /\ ~AuditCollectionExists
        /\ i.out.logErr = ErrNotFound
        /\ i.out.saved = <<>>

\* C11 (schema failures at startup, as claimed): with FailOnSchemaError false
\* neither a failure to create the audit collection nor a failure to import
\* the schema file aborts startup; the bootstrap hook fails only when the
\* platform's own bootstrap did.
C11_SchemaFailureTolerated ==
    (phase = "failed" /\ ~options.FailOnSchemaError)
        => bootErr \notin {ErrSave, ErrReadFile, ErrImport}

\* The event types of a hook class
ClassTypes(class) ==
    CASE class = "standard" -> {EventTypeCreate, EventTypeUpdate, EventTypeDelete}
      [] class = "request"  -> {EventTypeCreateReq, EventTypeUpdateReq, EventTypeDeleteReq}
      [] OTHER              -> {EventTypeAuth}

\* The enable flag of a hook class in an Options value
ClassEnabled(o, class) ==
    CASE class = "standard" -> o.EnableStandardEvents
      [] class = "request"  -> o.EnableRequestEvents
      [] OTHER              -> o.EnableAuthEvents

HookClasses == {"standard", "request", "auth"}

\* C12 (event-class gating): an entry of a class's event types is saved, and a
\* hook of the class is bound, only if the class's flag was true in the options
\* passed to Setup; the three flags default to true.
C12_ClassGating ==
    /\ \A class \in HookClasses :
         /\ ClassEnabled(DefaultOptions, class)
         /\ class \in registered => ClassEnabled(supplied, class)
         /\ ~ClassEnabled(supplied, class)
              => /\ \A n \in 1..Len(auditLog) :
                      auditLog[n][AuditLogFields.EventType] \notin ClassTypes(class)
                 /\ \A i \in Invocations : i.out.eventType \notin ClassTypes(class)

\* An API create went through its request hook, committed and finished while
\* the standard class was switched off: the request entry is all that was saved
C12_Witness ==
    \E p \in Procs :
        /\ ~supplied.EnableStandardEvents
        /\ supplied.EnableRequestEvents
        /\ proc[p].pc = "done"
        /\ proc[p].kind = "create"
        /\ proc[p].e.Collection = ObservedCollection
        /\ store[proc[p].e.Record.id] = proc[p].e.Record
        /\ proc[p].lifeInv = NoInv
        /\ proc[p].reqInv # NoInv
        /\ Len(auditLog) = 1
        /\ auditLog[1][AuditLogFields.EventType] = EventTypeCreateReq

\* One hook runs in this step: the platform moves an operation past its
\* request, lifecycle or auth hook
HookStep(p) ==
    /\ proc[p].pc \in {"request", "lifecycle", "auth"}
    /\ proc'[p].pc # proc[p].pc

\* The invocation that step leaves behind (NoInv when no hook was bound)
NewInv(p) ==
    IF proc[p].pc = "lifecycle" THEN proc'[p].lifeInv ELSE proc'[p].reqInv

\* C13 (no recursion): the save of an audit entry fires the post-create hook
\* on the audit collection, and that hook saves nothing; so one hook
\* invocation leaves at most one entry behind, however deep the hooks that
\* fire through the save are followed.
C13_NoRecursion ==
    /\ [](\A i \in Invocations :
            /\ Len(i.out.saved) <= 1
            /\ Persisted(i.out.saved, MaxDepth) = i.out.saved)
    /\ [][Len(auditLog') <= Len(auditLog) + 1]_vars

\* An entry was saved while the post-create hook was bound, so that hook ran
\* on the entry's own creation
C13_Witness ==
    /\ "standard" \in registered
    /\ Saved # {}
    /\ auditLog # <<>>

\* C14 (append-only): every step leaves the saved entries in place and
\* unchanged, adding new ones only at the end; a logEvent call that succeeds
\* adds exactly its one new entry.
C14_AppendOnly ==
    [][/\ Len(auditLog') >= Len(auditLog)
       /\ SubSeq(auditLog', 1, Len(auditLog)) = auditLog
       /\ \A p \in Procs :
            (HookStep(p) /\ NewInv(p) # NoInv)
               => auditLog' = auditLog \o NewInv(p).out.saved]_vars

\* Two entries were saved one after the other, by the request and the
\* lifecycle hook of one operation
C14_Witness ==
    \E p \in Procs :
        /\ Len(auditLog) >= 2
        /\ proc[p].reqInv # NoInv
        /\ proc[p].lifeInv # NoInv
        /\ proc[p].reqInv.out.saved # <<>>
        /\ proc[p].lifeInv.out.saved # <<>>
        /\ proc[p].reqInv.out.saved # proc[p].lifeInv.out.saved

\* C15 (pairing on the update-request path): the hook reads the stored record
\* before it continues the handler chain, so the before-record it hands to
\* logEvent is the state stored when the commit starts, the after-record is the
\* submitted record (the state stored once the commit is through), and the
\* entry's snapshots are the serializations of the two.
C15_UpdatePairing ==
    /\ [](\A p \in Procs :
            LET i == proc[p].reqInv
                e == proc[p].e
            IN  (i # NoInv /\ i.hook = "OnRecordUpdateRequest" /\ i.out.logCalled)
                  => /\ i.out.after = e.Record
                     /\ (i.out.before # NilRecord /\ proc[p].pc = "commit")
                          => i.out.before = store[e.Record.id]
                     /\ proc[p].pc = "lifecycle" => store[e.Record.id] = i.out.after
                     /\ \A n \in 1..Len(i.out.saved) :
                          /\ Has(i.out.saved[n], AuditLogFields.AfterChanges)
                               => i.out.saved[n][AuditLogFields.AfterChanges]
                                    = MarshalMap(RecordMap(e.Record))
                          /\ i.out.before # NilRecord
                               => i.out.saved[n][AuditLogFields.BeforeChanges]
                                    = MarshalMap(RecordMap(i.out.before)))
    /\ [][\A p \in Procs :
            (proc[p].pc = "request" /\ proc[p].kind = "update" /\ HookStep(p))
               => /\ store' = store
                  /\ proc'[p].pc = "commit"
                  /\ (NewInv(p) # NoInv /\ NewInv(p).out.logCalled
                      /\ NewInv(p).out.before # NilRecord)
                        => NewInv(p).out.before = store[proc[p].e.Record.id]]_vars

\* An update request was logged with both snapshots and then committed: the
\* stored record now is the after-state and no longer the before-state
C15_Witness ==
    \E p \in Procs :
        /\ proc[p].pc = "lifecycle"
        /\ proc[p].reqInv # NoInv
        /\ proc[p].reqInv.hook = "OnRecordUpdateRequest"
        /\ proc[p].reqInv.out.saved # <<>>
        /\ proc[p].reqInv.out.before # NilRecord
        /\ proc[p].reqInv.out.before # proc[p].reqInv.out.after
        /\ store[proc[p].e.Record.id] = proc[p].reqInv.out.after
        /\ Entry(proc[p].reqInv)[AuditLogFields.BeforeChanges]
             # Entry(proc[p].reqInv)[AuditLogFields.AfterChanges]

\* The saved entries of one event type
EntriesOfType(t) == {n \in 1..Len(auditLog) : auditLog[n][AuditLogFields.EventType] = t}

HeaderValue(headers, name) ==
    IF \E h \in DOMAIN headers : ToLower(h) = name
    THEN headers[CHOOSE h \in DOMAIN headers : ToLower(h) = name]
    ELSE <<>>

\* The first non-empty of the candidates, the sentinel when there is none
RECURSIVE FirstNonEmpty(_)
FirstNonEmpty(candidates) ==
    IF candidates = <<>> THEN <<"unknown">>
    ELSE IF Head(candidates) # <<>> THEN Head(candidates)
    ELSE FirstNonEmpty(Tail(candidates))

\* C17 (IP resolution chain, as claimed): extractIP returns the RealIP answer
\* when the event exposes it; otherwise the first non-empty of cf-connecting-ip,
\* the first comma-separated entry of x-forwarded-for, x-real-ip and
\* fly-client-ip, the names compared without regard to case; and "unknown"
\* when there is none or the request information cannot be had.
C17_ResolutionChain ==
    \A p \in Procs :
        (proc[p].pc = "done" /\ proc[p].reqInv.hook = "extractIP")
          => LET e == proc[p].e
                 H == e.RequestInfo.Headers
             IN  proc[p].reqInv.returned =
                   IF e.hasRealIP THEN <<e.RealIP>>
                   ELSE IF ~e.hasRequestInfo \/ e.RequestInfo.err THEN <<"unknown">>
                   ELSE FirstNonEmpty(<<HeaderValue(H, "cf-connecting-ip"),
                                        TrimSpace(FirstEntry(HeaderValue(H, "x-forwarded-for"))),
                                        HeaderValue(H, "x-real-ip"),
                                        HeaderValue(H, "fly-client-ip")>>)

\* C18 (no retry): a logEvent call whose save fails returns the save's error
\* and leaves no entry; the entries a step adds are those its own hook's call
\* saved, so no later step makes up for the entry that was lost.
C18_NoRetry ==
    /\ [](\A i \in Calls :
            (/\ shouldLogEvent(logger, i.out.collectionName, i.out.eventType)
             /\ AuditCollectionExists
             /\ ~i.out.env.saveOk)
               => i.out.logErr = ErrSave /\ i.out.saved = <<>>)
    /\ [][/\ (\A p \in Procs : ~HookStep(p)) => auditLog' = auditLog
          /\ \A p \in Procs :
               HookStep(p)
                 => auditLog' = auditLog \o (IF NewInv(p) = NoInv THEN <<>>
                                             ELSE NewInv(p).out.saved)]_vars

\* An operation ran to its end while the save of its lifecycle entry failed:
\* the hook got the save's error and the log is still empty
C18_Witness ==
    \E p \in Procs :
        /\ proc[p].pc = "done"
        /\ proc[p].lifeInv # NoInv
        /\ proc[p].lifeInv.out.logCalled
        /\ shouldLogEvent(logger, proc[p].lifeInv.out.collectionName,
                          proc[p].lifeInv.out.eventType)
        /\ AuditCollectionExists
        /\ ~proc[p].lifeInv.out.env.saveOk
        /\ proc[p].lifeInv.out.logErr = ErrSave
        /\ auditLog = <<>>

\* The import errors the bootstrap hook may meet
ImportErrors == {ErrReadFile, ErrImport, ErrSave}

\* C19 (schema-import failure): a failed import makes the bootstrap hook return
\* the error, with no capture hook bound, exactly when FailOnSchemaError is
\* true; with the flag false the hook goes on and binds the enabled hooks.
C19_ImportFailure ==
    /\ [](/\ phase = "failed" => registered = {}
          /\ phase = "warned" => ~options.FailOnSchemaError)
    /\ [][/\ (phase = "import" /\ phase' # phase)
               => /\ phase' \in {"failed", "warned", "register"}
                  /\ phase' = "failed"
                       => /\ options.FailOnSchemaError
                          /\ options.SchemaPath # ""
                          /\ bootErr' \in ImportErrors
                  /\ phase' = "register"
                       => /\ bootErr' = Nil
                          /\ options.SchemaPath # ""
                               => FindCollectionByNameOrId(collections',
                                                           options.CollectionName)
                  /\ phase' = "warned" => options.SchemaPath # ""
          /\ (phase = "warned" /\ phase' # phase)
               => /\ phase' = "running"
                  /\ bootErr' = Nil
                  /\ registered' = {c \in HookClasses : ClassEnabled(options, c)}]_vars

\* The import failed under FailOnSchemaError: the bootstrap hook returned the
\* error and bound nothing
C19_Witness ==
    /\ phase = "failed"
    /\ options.FailOnSchemaError
    /\ options.SchemaPath # ""
    /\ bootErr \in {ErrReadFile, ErrImport}
    /\ registered = {}

\* The options Setup is to work with, given the ones it was passed
Corrected(o) ==
    [o EXCEPT !.CollectionName = IF o.CollectionName = "" THEN "audit_logs"
                                 ELSE o.CollectionName]

\* C20 (empty collection name): Setup with CollectionName "" goes on as with
\* "audit_logs" - that collection is the one created, written to and excluded
\* from logging - and every other option is held exactly as supplied.
C20_EmptyNameCorrected ==
    /\ \A o \in OptionInputs : applyDefaultOptions(o) = Corrected(o)
    /\ phase = "new" => options = supplied
    /\ phase # "new" => options = Corrected(supplied)
    /\ \A n \in 1..Len(collections) : collections[n].name # ""
    /\ supplied.CollectionName = ""
         => /\ Saved # {} => FindCollectionByNameOrId(collections, "audit_logs")
            /\ \A n \in 1..Len(auditLog) :
                 auditLog[n][AuditLogFields.CollectionName] # "audit_logs"
            /\ \A p \in Procs :
                 (proc[p].pc # "idle" /\ proc[p].e.Collection = "audit_logs")
                    => \A i \in InvsOf(p) : i.out.saved = <<>>

\* Setup was passed an empty name, the standard class switched off and the
\* other two on: entries went to "audit_logs", and an operation on
\* "audit_logs" itself ran through without one
C20_Witness ==
    \E p \in Procs :
        /\ supplied.CollectionName = ""
        /\ ~supplied.EnableStandardEvents
        /\ options.CollectionName = "audit_logs"
        /\ ~options.EnableStandardEvents
        /\ options.EnableRequestEvents
        /\ auditLog # <<>>
        /\ \E n \in 1..Len(collections) :
             /\ collections[n].name = "audit_logs"
             /\ collections[n].schema = AuditCollectionSchema
        /\ proc[p].pc = "done"
        /\ proc[p].e.Collection = "audit_logs"
        /\ proc[p].reqInv # NoInv

\* The store holds the outcome of the operation a worker is in
IsCommitted(p) ==
    LET rec == proc[p].e.Record
    IN  rec.collection = ObservedCollection
          => IF proc[p].kind = "delete" THEN store[rec.id] = NilRecord
             ELSE store[rec.id] = rec

\* C21 (audit write versus commit): a lifecycle hook runs, and saves its entry,
\* only once the operation is committed; a request hook saves its entry in the
\* step that takes it to its e.Next(), with the commit still to come - the
\* entry is in the log while the operation is uncommitted, and the commit step
\* adds nothing to the log.
C21_WriteOrder ==
    /\ [](\A p \in Procs :
            /\ proc[p].lifeInv # NoInv => IsCommitted(p) /\ proc[p].pc = "done"
            /\ (proc[p].reqInv # NoInv /\ proc[p].reqInv.hook \in RequestHookNames
                /\ proc[p].pc = "commit")
                 => /\ proc[p].reqInv.status = "inNext"
                    /\ proc[p].lifeInv = NoInv
                    /\ \A n \in 1..Len(proc[p].reqInv.out.saved) :
                         /\ Len(auditLog) >= 1
                         /\ auditLog[Len(auditLog)] = proc[p].reqInv.out.saved[n])
    /\ [][\A p \in Procs :
            /\ (HookStep(p) /\ proc[p].pc = "lifecycle")
                 => /\ IsCommitted(p)
                    /\ store' = store
            /\ (HookStep(p) /\ proc[p].pc = "request")
                 => /\ store' = store
                    /\ proc'[p].pc = "commit"
                    /\ auditLog' = auditLog \o (IF NewInv(p) = NoInv THEN <<>>
                                                ELSE NewInv(p).out.saved)
            /\ (proc[p].pc = "commit" /\ proc'[p].pc # "commit")
                 => /\ auditLog' = auditLog
                    /\ proc'[p].pc = "lifecycle" => store' = Committed(proc[p].kind,
                                                                       proc[p].e.Record)]_vars

\* After an API create was logged by its request hook and, once committed, by
\* its lifecycle hook, an update was logged by its request hook and then
\* failed to commit: its request entry stays, no lifecycle entry follows
C21_Witness ==
    \E p \in Procs :
        /\ proc[p].pc = "done"
        /\ proc[p].kind = "update"
        /\ proc[p].reqInv # NoInv
        /\ proc[p].reqInv.out.saved # <<>>
        /\ proc[p].reqInv.returned = ErrDownstream
        /\ proc[p].lifeInv = NoInv
        /\ store[proc[p].e.Record.id] # proc[p].e.Record
        /\ Len(auditLog) = 3
        /\ auditLog[1][AuditLogFields.EventType] = EventTypeCreateReq
        /\ auditLog[2][AuditLogFields.EventType] = EventTypeCreate
        /\ auditLog[3] = Entry(proc[p].reqInv)

\* The hook invocations of all workers, each named by its worker and its place
\* in the operation
Slots == Workers \X {"reqInv", "lifeInv"}

SlotInv(s) == proc[s[1]][s[2]]

\* The invocations whose logEvent call has returned from l.app.Save with an
\* entry saved
Completed ==
    {s \in Slots : /\ SlotInv(s) # NoInv
                   /\ SlotInv(s).status # "saving"
                   /\ SlotInv(s).out.saved # <<>>}

\* The event type a hook in this place logs for an operation of this kind
EventTypeOf(kind, slot) ==
    CASE kind = "create" -> IF slot = "reqInv" THEN EventTypeCreateReq ELSE EventTypeCreate
      [] kind = "update" -> IF slot = "reqInv" THEN EventTypeUpdateReq ELSE EventTypeUpdate
      [] OTHER           -> IF slot = "reqInv" THEN EventTypeDeleteReq ELSE EventTypeDelete

\* C22 (concurrent writers): however the hook invocations of two workers
\* interleave, each invocation that passes the gate with a save that succeeds
\* leaves exactly its own entry: the log holds the entries of the completed
\* invocations, each as often as it was saved and nothing else, each with the
\* collection_name, record_id and event_type of its own event; a save adds the
\* saving invocation's entry at the end and touches no other worker.
C22_IndependentEntries ==
    /\ [](/\ \A s \in Slots :
               (/\ SlotInv(s) # NoInv
                /\ SlotInv(s).out.logCalled
                /\ shouldLogEvent(logger, SlotInv(s).out.collectionName,
                                  SlotInv(s).out.eventType)
                /\ SlotInv(s).out.env.saveOk)
                  => Len(SlotInv(s).out.saved) = 1
          /\ \A s \in Completed :
               LET en == Entry(SlotInv(s))
                   e  == proc[s[1]].e
               IN  /\ en[AuditLogFields.CollectionName] = e.Collection
                   /\ en[AuditLogFields.RecordID] = e.Record.id
                   /\ en[AuditLogFields.EventType] = EventTypeOf(proc[s[1]].kind, s[2])
          /\ Len(auditLog) = Cardinality(Completed)
          /\ \A x \in {auditLog[n] : n \in 1..Len(auditLog)}
                      \cup {Entry(SlotInv(s)) : s \in Completed} :
               Cardinality({n \in 1..Len(auditLog) : auditLog[n] = x})
                 = Cardinality({s \in Completed : Entry(SlotInv(s)) = x}))
    /\ [][/\ \A p \in Workers :
               (proc[p].pc \in {"requestSave", "lifecycleSave"} /\ proc'[p].pc # proc[p].pc)
                 => /\ auditLog' = auditLog \o
                          (IF proc[p].pc = "requestSave" THEN proc[p].reqInv.out.saved
                           ELSE proc[p].lifeInv.out.saved)
                    /\ \A q \in Workers \ {p} : proc'[q] = proc[q]
          /\ (\A p \in Workers :
                ~(proc[p].pc \in {"requestSave", "lifecycleSave"} /\ proc'[p].pc # proc[p].pc))
               => auditLog' = auditLog]_vars

\* Two workers ran an operation each, on different records, their four hook
\* invocations interleaved: the log holds the four entries in the order of the
\* saves
C22_Witness ==
    /\ proc["p1"].pc = "done"
    /\ proc["p2"].pc = "done"
    /\ proc["p1"].e.Collection = ObservedCollection
    /\ proc["p2"].e.Collection = ObservedCollection
    /\ proc["p1"].e.Record.id # proc["p2"].e.Record.id
    /\ Cardinality(Completed) = 4
    /\ Len(auditLog) = 4
    /\ auditLog[1] = Entry(proc["p1"].reqInv)
    /\ auditLog[2] = Entry(proc["p2"].reqInv)
    /\ auditLog[3] = Entry(proc["p2"].lifeInv)
    /\ auditLog[4] = Entry(proc["p1"].lifeInv)

\* C23 (prior-record lookup fails): an update-request hook whose lookup of the
\* stored record fails still calls logEvent and continues the chain.  The call
\* fares as it would have with the record found - it saves its entry when the
\* gate passes, the audit collection is there and the save succeeds - and the
\* entry differs only in before_changes, which is absent: record_id is the
\* submitted record's id and after_changes its serialization.
C23_LookupFailureTolerated ==
    \A p \in Procs :
        LET i == proc[p].reqInv
            e == proc[p].e
        IN  (/\ i # NoInv
             /\ i.hook = "OnRecordUpdateRequest"
             /\ e.Collection # options.CollectionName)
              => /\ i.out.logCalled
                 /\ i.out.nextCalled
                 /\ i.nextCalls = 1
                 /\ i.out.after = e.Record
                 /\ i.out.before = NilRecord
                      => /\ (/\ shouldLogEvent(logger, e.Collection, EventTypeUpdateReq)
                             /\ AuditCollectionExists
                             /\ i.out.env.saveOk)
                               => Len(i.out.saved) = 1 /\ i.out.logErr = Nil
                         /\ \A n \in 1..Len(i.out.saved) :
                              LET en == i.out.saved[n]
                              IN  /\ ~Has(en, AuditLogFields.BeforeChanges)
                                  /\ en[AuditLogFields.RecordID] = e.Record.id
                                  /\ en[AuditLogFields.EventType] = EventTypeUpdateReq
                                  /\ i.out.env.marshalAfterOk
                                       => en[AuditLogFields.AfterChanges]
                                            = MarshalMap(RecordMap(e.Record))
                                  /\ en \in {auditLog[k] : k \in 1..Len(auditLog)}
                         /\ proc[p].pc = "commit"
                              => LET found == OnRecordUpdateRequest(logger, collections, e,
                                                  store[e.Record.id], i.out.env)
                                 IN  /\ found.before # NilRecord
                                     /\ i.out.logErr = found.logErr
                                     /\ Len(i.out.saved) = Len(found.saved)
                                     /\ \A n \in 1..Len(i.out.saved) :
                                          \A f \in EntryFields \ {AuditLogFields.BeforeChanges} :
                                             i.out.saved[n][f] = found.saved[n][f]

\* An update request whose lookup failed was logged with the after-state only
\* and went on to commit
C23_Witness ==
    \E p \in Procs :
        /\ proc[p].pc = "lifecycle"
        /\ proc[p].reqInv # NoInv
        /\ proc[p].reqInv.hook = "OnRecordUpdateRequest"
        /\ proc[p].reqInv.out.logCalled
        /\ proc[p].reqInv.out.before = NilRecord
        /\ proc[p].reqInv.out.saved # <<>>
        /\ Has(Entry(proc[p].reqInv), AuditLogFields.AfterChanges)
        /\ ~Has(Entry(proc[p].reqInv), AuditLogFields.BeforeChanges)
        /\ Entry(proc[p].reqInv)[AuditLogFields.RecordID] = proc[p].e.Record.id
        /\ store[proc[p].e.Record.id] = proc[p].e.Record
        /\ auditLog = <<Entry(proc[p].reqInv)>>

\* C24 (rejected by the gate): a logEvent call the gate rejects - the audit
\* collection itself, or the filter answering false - returns no error and
\* saves nothing, and would do so whatever the collections hold and whatever
\* the storage and the serialization would answer: it reads and writes nothing.
C24_SilentNoOp ==
    /\ [](\A i \in Calls :
            ~shouldLogEvent(logger, i.out.collectionName, i.out.eventType)
              => /\ i.out.logErr = Nil
                 /\ i.out.saved = <<>>
                 /\ \A env \in LogEnvs, colls \in {<<>>, collections} :
                      logEvent(logger, colls, i.out.after, i.out.before,
                               i.out.collectionName, i.out.eventType, i.out.requestInfo, env)
                        = [err |-> Nil, saved |-> <<>>])
    /\ [][\A p \in Procs :
            (/\ HookStep(p)
             /\ NewInv(p) # NoInv
             /\ NewInv(p).out.logCalled
             /\ ~shouldLogEvent(logger, NewInv(p).out.collectionName, NewInv(p).out.eventType))
              => /\ auditLog' = auditLog
                 /\ collections' = collections
                 /\ store' = store]_vars

\* A hook called logEvent under a filter that denies everything, with the audit
\* collection missing and a storage that would have failed: the call returned
\* no error and the log is empty
C24_Witness ==
    \E i \in Calls :
        /\ options.EventFilter = "denyAll"
        /\ ~shouldLogEvent(logger, i.out.collectionName, i.out.eventType)
        /\ i.out.collectionName = ObservedCollection
        /\ ~AuditCollectionExists
        /\ ~i.out.env.saveOk
        /\ i.out.logErr = Nil
        /\ i.status = "returned"
        /\ auditLog = <<>>

\* C25 (record_id, as claimed): every logEvent call is handed an after-record
\* or a before-record, and every saved entry has a record_id that is not empty
\* and is the after-record's id when there is one, the before-record's
\* otherwise.
C25_RecordIdDerivable ==
    /\ \A i \in Calls : i.out.after # NilRecord \/ i.out.before # NilRecord
    /\ \A i \in Saved :
         Entry(i)[AuditLogFields.RecordID] =
            IF i.out.after # NilRecord THEN i.out.after.id ELSE i.out.before.id
    /\ \A n \in 1..Len(auditLog) : auditLog[n][AuditLogFields.RecordID] # ""

LifecycleTypes == {EventTypeCreate, EventTypeUpdate, EventTypeDelete}

\* C26 (auth entries): an auth event that is logged - the gate passing, the
\* audit collection in place, the save succeeding - leaves one entry with
\* event_type auth, the event's auth method, the authenticated record's id as
\* user_id and as record_id, no before_changes and, its serialization
\* succeeding, the record's snapshot as after_changes; no entry of another
\* type has an auth_method, and no create, update or delete entry has a
\* request_method, request_ip or request_url.
C26_AuthEntries ==
    /\ \A p \in Procs :
         LET i == proc[p].reqInv
             e == proc[p].e
         IN  (i # NoInv /\ i.hook = "OnRecordAuthRequest" /\ e.Record # NilRecord)
               => /\ i.out.logCalled
                  /\ i.out.eventType = EventTypeAuth
                  /\ (/\ shouldLogEvent(logger, e.Record.collection, EventTypeAuth)
                      /\ AuditCollectionExists
                      /\ i.out.env.saveOk) => Len(i.out.saved) = 1
                  /\ \A n \in 1..Len(i.out.saved) :
                       LET en == i.out.saved[n]
                       IN  /\ en[AuditLogFields.EventType] = EventTypeAuth
                           /\ en[AuditLogFields.AuthMethod] = e.AuthMethod
                           /\ en[AuditLogFields.UserID] = e.Record.id
                           /\ en[AuditLogFields.RecordID] = e.Record.id
                           /\ en[AuditLogFields.CollectionName] = e.Record.collection
                           /\ ~Has(en, AuditLogFields.BeforeChanges)
                           /\ i.out.env.marshalAfterOk
                                => en[AuditLogFields.AfterChanges]
                                     = MarshalMap(RecordMap(e.Record))
                           /\ en \in {auditLog[k] : k \in 1..Len(auditLog)}
    /\ \A n \in 1..Len(auditLog) :
         LET en == auditLog[n]
         IN  /\ Has(en, AuditLogFields.AuthMethod)
                  <=> en[AuditLogFields.EventType] = EventTypeAuth
             /\ en[AuditLogFields.EventType] \in LifecycleTypes
                  => /\ ~Has(en, AuditLogFields.RequestMethod)
                     /\ ~Has(en, AuditLogFields.RequestIP)
                     /\ ~Has(en, AuditLogFields.RequestURL)

\* After a record was created from code and logged by the lifecycle hook, a
\* user authenticated through OAuth2 and the auth hook saved its entry
C26_Witness ==
    \E p \in Procs :
        /\ proc[p].pc = "done"
        /\ proc[p].reqInv # NoInv
        /\ proc[p].reqInv.hook = "OnRecordAuthRequest"
        /\ proc[p].e.AuthMethod = "oauth2"
        /\ proc[p].reqInv.out.saved # <<>>
        /\ Len(auditLog) = 2
        /\ auditLog[1][AuditLogFields.EventType] = EventTypeCreate
        /\ auditLog[2] = Entry(proc[p].reqInv)
        /\ auditLog[2][AuditLogFields.AuthMethod] = "oauth2"
        /\ auditLog[2][AuditLogFields.UserID] = "u1"
        /\ Has(auditLog[2], AuditLogFields.AfterChanges)

\* C27 (request information unavailable): a request hook, or the auth hook of
\* an event with its record, whose e.RequestInfo() fails still calls logEvent
\* and continues the chain; the request information it hands over holds
\* request_ip (what RealIP answered) and, for auth, auth_method and user_id,
\* and nothing else, so that the entry has no request_method and no
\* request_url and its user_id is not a request principal's.
C27_RequestInfoDegrades ==
    \A p \in Procs :
        LET i == proc[p].reqInv
            e == proc[p].e
        IN  (/\ i # NoInv
             /\ e.RequestInfo.err
             /\ e.Collection # options.CollectionName
             /\ e.Record # NilRecord)
              => /\ i.out.logCalled
                 /\ i.out.nextCalled
                 /\ i.nextCalls = 1
                 /\ ~i.out.panicked
                 /\ i.hook \in RequestHookNames
                      => /\ DOMAIN i.out.requestInfo = {AuditLogFields.RequestIP}
                         /\ \A n \in 1..Len(i.out.saved) :
                              i.out.saved[n][AuditLogFields.UserID] =
                                 IF i.out.after # NilRecord THEN OwnerOf(i.out.after)
                                 ELSE OwnerOf(i.out.before)
                 /\ i.hook = "OnRecordAuthRequest"
                      => /\ DOMAIN i.out.requestInfo =
                              {AuditLogFields.RequestIP, AuditLogFields.AuthMethod,
                               AuditLogFields.UserID}
                         /\ i.out.requestInfo[AuditLogFields.AuthMethod] = e.AuthMethod
                         /\ i.out.requestInfo[AuditLogFields.UserID] = e.Record.id
                 /\ i.out.requestInfo[AuditLogFields.RequestIP] = e.RealIP
                 /\ i.out.requestInfo[AuditLogFields.RequestIP] # ""
                 /\ (/\ shouldLogEvent(logger, i.out.collectionName, i.out.eventType)
                     /\ AuditCollectionExists
                     /\ i.out.env.saveOk) => Len(i.out.saved) = 1
                 /\ \A n \in 1..Len(i.out.saved) :
                      /\ i.out.saved[n][AuditLogFields.RequestIP] = e.RealIP
                      /\ ~Has(i.out.saved[n], AuditLogFields.RequestMethod)
                      /\ ~Has(i.out.saved[n], AuditLogFields.RequestURL)

\* A delete request whose request information could not be had was logged with
\* the address alone, and the chain went on to the commit
C27_Witness ==
    \E p \in Procs :
        /\ proc[p].pc = "lifecycle"
        /\ proc[p].kind = "delete"
        /\ proc[p].e.RequestInfo.err
        /\ proc[p].reqInv # NoInv
        /\ proc[p].reqInv.out.saved # <<>>
        /\ Entry(proc[p].reqInv)[AuditLogFields.RequestIP] = "9.9.9.9"
        /\ ~Has(Entry(proc[p].reqInv), AuditLogFields.RequestMethod)
        /\ ~Has(Entry(proc[p].reqInv), AuditLogFields.RequestURL)
        /\ store[proc[p].e.Record.id] = NilRecord

\* The outcomes of a logEvent call's platform calls, had every serialization
\* succeeded
AllSerialized(env) == [env EXCEPT !.marshalBeforeOk = TRUE, !.marshalAfterOk = TRUE]

\* C28 (serialization failure): a logEvent call returns and saves what it
\* would have with every serialization succeeding - no error and one entry
\* when the gate passes, the audit collection is there and the save succeeds -
\* but for the snapshot field of each record whose serialization failed, which
\* is absent; the other snapshot and every other field are the same.
C28_OneFieldDegrades ==
    \A i \in Calls :
        LET whole == logEvent(logger, collections, i.out.after, i.out.before,
                              i.out.collectionName, i.out.eventType, i.out.requestInfo,
                              AllSerialized(i.out.env))
            failed == (IF i.out.before # NilRecord /\ ~i.out.env.marshalBeforeOk
                       THEN {AuditLogFields.BeforeChanges} ELSE {})
                      \cup (IF i.out.after # NilRecord /\ ~i.out.env.marshalAfterOk
                            THEN {AuditLogFields.AfterChanges} ELSE {})
        IN  /\ i.out.logErr = whole.err
            /\ Len(i.out.saved) = Len(whole.saved)
            /\ (/\ shouldLogEvent(logger, i.out.collectionName, i.out.eventType)
                /\ AuditCollectionExists
                /\ i.out.env.saveOk) => i.out.logErr = Nil /\ Len(i.out.saved) = 1
            /\ \A n \in 1..Len(i.out.saved), f \in EntryFields :
                 /\ f \in failed => i.out.saved[n][f] = NoSnapshot /\ Has(whole.saved[n], f)
                 /\ f \notin failed => i.out.saved[n][f] = whole.saved[n][f]
                 /\ i.out.saved[n] \in {auditLog[k] : k \in 1..Len(auditLog)}

\* An update request was logged while the serialization of the stored record
\* failed: the entry was saved without error, with the after snapshot alone
C28_Witness ==
    \E i \in Saved :
        /\ i.out.eventType = EventTypeUpdateReq
        /\ i.out.before # NilRecord
        /\ ~i.out.env.marshalBeforeOk
        /\ i.out.env.marshalAfterOk
        /\ i.out.logErr = Nil
        /\ ~Has(Entry(i), AuditLogFields.BeforeChanges)
        /\ Entry(i)[AuditLogFields.AfterChanges] = MarshalMap(RecordMap(i.out.after))
        /\ auditLog = <<Entry(i)>>

\* C29 (import ensures the audit collection): whenever importCollectionsFromFile
\* returns no error, a collection of the configured name exists; one the
\* schema file did not bring and that was not there before is created as
\* ensureAuditCollection builds it, and when that creation fails the import
\* returns the error.  The bootstrap hook's import step is such a call.
C29_ImportEnsuresCollection ==
    /\ [](\A outcome \in ImportOutcomes, saveOk \in BOOLEAN :
            LET name == options.CollectionName
                r    == importCollectionsFromFile(collections, name, outcome, saveOk)
                was  == FindCollectionByNameOrId(collections, name)
            IN  /\ r.err = Nil => FindCollectionByNameOrId(r.colls, name)
                /\ Len(r.colls) >= Len(collections)
                /\ SubSeq(r.colls, 1, Len(collections)) = collections
                /\ outcome \in {"readFails", "importFails"}
                     => r.err \in {ErrReadFile, ErrImport} /\ r.colls = collections
                /\ (outcome = "withoutAudit" /\ ~was /\ saveOk)
                     => /\ r.err = Nil
                        /\ r.colls = Append(collections, [name   |-> name,
                                                          schema |-> AuditCollectionSchema])
                /\ (outcome = "withoutAudit" /\ ~was /\ ~saveOk)
                     => /\ r.err = ErrSave
                        /\ ~FindCollectionByNameOrId(r.colls, name)
                /\ (outcome \in {"withoutAudit", "withAudit"} /\ was)
                     => r.err = Nil /\ r.colls = collections)
    /\ [][(phase = "import" /\ phase' # phase /\ options.SchemaPath # "")
            => \E outcome \in ImportOutcomes, saveOk \in BOOLEAN :
                 LET r == importCollectionsFromFile(collections, options.CollectionName,
                                                    outcome, saveOk)
                 IN  /\ collections' = r.colls
                     /\ (r.err = Nil) <=> (phase' = "register")
                     /\ phase' = "register"
                          => FindCollectionByNameOrId(collections', options.CollectionName)]_vars

\* The bootstrap hook was not to create the audit collection itself, the schema
\* file did not hold it, and the import went through: the collection is there,
\* built by ensureAuditCollection
C29_Witness ==
    /\ phase = "register"
    /\ options.SchemaPath # ""
    /\ ~options.CreateAuditCollection
    /\ bootErr = Nil
    /\ \E n \in 1..Len(collections) :
         /\ collections[n].name = options.CollectionName
         /\ collections[n].schema = AuditCollectionSchema

\* What a hook yields for an event under a given configuration, its platform
\* calls answering as they did in the invocation
HookOutcomeUnder(o, i, e) ==
    LET l == [options |-> o]
    IN  CASE i.hook = "OnRecordAfterCreateSuccess" ->
                OnRecordAfterCreateSuccess(l, collections, e, i.out.env)
          [] i.hook = "OnRecordAfterUpdateSuccess" ->
                OnRecordAfterUpdateSuccess(l, collections, e, i.out.env)
          [] i.hook = "OnRecordAfterDeleteSuccess" ->
                OnRecordAfterDeleteSuccess(l, collections, e, i.out.env)
          [] i.hook = "OnRecordCreateRequest" ->
                OnRecordCreateRequest(l, collections, RequestEvent(e), i.out.env)
          [] i.hook = "OnRecordUpdateRequest" ->
                OnRecordUpdateRequest(l, collections, e, i.out.before, i.out.env)
          [] i.hook = "OnRecordDeleteRequest" ->
                OnRecordDeleteRequest(l, collections, e, i.out.env)
          [] OTHER -> OnRecordAuthRequest(l, collections, e, i.out.env)

RecordIdOf(i) ==
    IF i.out.after # NilRecord THEN i.out.after.id ELSE i.out.before.id

\* The storage failed on an entry it would have taken: the save was refused
\* though the record filled in every field a collection can require
StorageFault(i) ==
    ~i.out.env.saveOk /\ RecordIdOf(i) # ""

\* The request-type and the lifecycle-type event of an operation
RequestTypeOf(kind) ==
    CASE kind = "create" -> EventTypeCreateReq
      [] kind = "update" -> EventTypeUpdateReq
      [] OTHER           -> EventTypeDeleteReq

LifecycleTypeOf(kind) ==
    CASE kind = "create" -> EventTypeCreate
      [] kind = "update" -> EventTypeUpdate
      [] OTHER           -> EventTypeDelete

\* C31 (two entries per API operation, as claimed): with the standard and the
\* request hooks bound, no filter, the audit collection in place and the
\* storage working, an API create, update or delete of a record of another
\* collection that committed has left exactly two entries that name the
\* record: its request-type entry, and after it its lifecycle-type entry.
C31_TwoEntriesPerOperation ==
    \A p \in Procs :
        (/\ proc[p].pc = "done"
         /\ proc[p].via = "api"
         /\ proc[p].kind \in {"create", "update", "delete"}
         /\ proc[p].e.Collection # options.CollectionName
         /\ {"standard", "request"} \subseteq registered
         /\ options.EventFilter = Nil
         /\ AuditCollectionExists
         /\ proc[p].reqInv # NoInv
         /\ proc[p].lifeInv # NoInv
         /\ ~StorageFault(proc[p].reqInv)
         /\ ~StorageFault(proc[p].lifeInv))
            => LET n  == Len(auditLog)
                   id == proc[p].e.Record.id
               IN  /\ Len(proc[p].reqInv.out.saved) = 1
                   /\ Len(proc[p].lifeInv.out.saved) = 1
                   /\ n >= 2
                   /\ auditLog[n - 1] = Entry(proc[p].reqInv)
                   /\ auditLog[n] = Entry(proc[p].lifeInv)
                   /\ auditLog[n - 1][AuditLogFields.EventType] = RequestTypeOf(proc[p].kind)
                   /\ auditLog[n][AuditLogFields.EventType] = LifecycleTypeOf(proc[p].kind)
                   /\ auditLog[n - 1][AuditLogFields.RecordID] = id
                   /\ auditLog[n][AuditLogFields.RecordID] = id

RequestTypes == {EventTypeCreateReq, EventTypeUpdateReq, EventTypeDeleteReq}

\* The operation of worker p was refused after its request hook: the hook's
\* e.Next() came back with the error, nothing was committed
FailedDownstream(p) ==
    /\ proc[p].pc = "done"
    /\ proc[p].reqInv # NoInv
    /\ proc[p].reqInv.hook \in RequestHookNames
    /\ proc[p].reqInv.returned = ErrDownstream

\* C32 (request entries outlive a failed operation): the entry a request hook
\* saved is in the audit collection from the moment the hook continues the
\* chain, whatever becomes of the operation; no step removes or alters a
\* request-type entry; and the step in which the operation fails downstream
\* writes neither the store nor the log, so the entry of an operation that
\* never committed remains.
C32_RequestEntryRemains ==
    /\ [](\A p \in Procs :
            (/\ proc[p].reqInv # NoInv
             /\ proc[p].reqInv.hook \in RequestHookNames
             /\ proc[p].reqInv.out.saved # <<>>)
               => /\ proc[p].reqInv.out.nextCalled
                  /\ \E n \in 1..Len(auditLog) :
                       /\ auditLog[n] = Entry(proc[p].reqInv)
                       /\ auditLog[n][AuditLogFields.EventType] \in RequestTypes
                  /\ FailedDownstream(p) => proc[p].lifeInv = NoInv)
    /\ [][/\ \A n \in 1..Len(auditLog) :
               auditLog[n][AuditLogFields.EventType] \in RequestTypes
                  => n <= Len(auditLog') /\ auditLog'[n] = auditLog[n]
          /\ \A p \in Procs :
               (proc[p].pc = "commit" /\ proc'[p].pc = "done")
                  => /\ store' = store
                     /\ auditLog' = auditLog
                     /\ FailedDownstream(p)' \/ proc[p].reqInv = NoInv]_vars

\* An API delete was logged by its request hook and then refused downstream:
\* the record is still stored, the delete_request entry is the last of the log
\* and no delete entry follows it
C32_Witness ==
    \E p \in Procs :
        /\ FailedDownstream(p)
        /\ proc[p].kind = "delete"
        /\ proc[p].lifeInv = NoInv
        /\ proc[p].reqInv.out.saved # <<>>
        /\ store[proc[p].e.Record.id] = proc[p].e.Record
        /\ auditLog # <<>>
        /\ auditLog[Len(auditLog)] = Entry(proc[p].reqInv)
        /\ auditLog[Len(auditLog)][AuditLogFields.EventType] = EventTypeDeleteReq
        /\ EntriesOfType(EventTypeDelete) = {}

\* C33 (before-state under concurrency, as claimed): when two API updates of
\* one record are under way at once, the before_changes of each update_request
\* entry whose lookup succeeded is the stored state this request's own commit
\* overwrites - no other commit falls between the hook's read and that commit.
C33_BeforeStateIsOverwritten ==
    [][\A p \in Workers :
         (/\ proc[p].pc = "commit"
          /\ proc'[p].pc = "lifecycle"
          /\ \A q \in Workers :
               /\ proc[q].kind = "update"
               /\ proc[q].via = "api"
               /\ proc[q].e.Record.id = proc[p].e.Record.id
          /\ proc[p].reqInv # NoInv
          /\ proc[p].reqInv.out.saved # <<>>
          /\ proc[p].reqInv.out.before # NilRecord)
            => /\ proc[p].reqInv.out.before = store[proc[p].e.Record.id]
               /\ Entry(proc[p].reqInv)[AuditLogFields.BeforeChanges] =
                    MarshalMap(RecordMap(store[proc[p].e.Record.id]))]_vars

\* C34 (auth hook tolerates an absent record, as claimed): the auth hook runs
\* to its end on every auth event, the one without a principal record
\* included: it does not fault, it continues the chain, and an event without
\* a record is logged without a user_id taken from the record.
C34_AuthHookNilSafe ==
    \A p \in Procs :
        (/\ proc[p].pc = "done"
         /\ proc[p].kind = "auth"
         /\ proc[p].reqInv # NoInv)
            => /\ ~proc[p].reqInv.out.panicked
               /\ proc[p].reqInv.status = "returned"
               /\ proc[p].reqInv.out.nextCalled
               /\ proc[p].e.Record = NilRecord
                    => \A n \in 1..Len(proc[p].reqInv.out.saved) :
                         ~Has(proc[p].reqInv.out.saved[n], AuditLogFields.UserID)

====
